---------------------------- MODULE Spec2Model ----------------------------
(***************************************************************************)
(* A model of library/_str_mod.py: the printf-style `%` formatter shared   *)
(* by str.__mod__ (StringLikeFormatter) and bytes.__mod__                  *)
(* (BytesLikeFormatter).                                                   *)
(*                                                                         *)
(* Text is a sequence of code points, bytes a sequence of 0..255.  One     *)
(* call of Formatter.format is a run of the state machine below: every     *)
(* action is one stretch of the scan loop that ends at the next            *)
(* `it.__next__()`, and Finish is the StopIteration handler with the code  *)
(* after the loop.                                                         *)
(***************************************************************************)
EXTENDS Integers, Sequences, FiniteSets, TLC

---------------------------------------------------------------------------
(* Characters.  ord[ch] is the code point of the one-character literal ch. *)

OrdChars ==
    << "%", "(", ")", "-", "+", " ", "#", "0", "9", "*", ".", "s",
       "r", "a", "c", "d", "i", "u", "x", "X", "o", "e", "E", "f",
       "F", "g", "G", "z", "'", "\\", "b", ",", "{", "}", ":", "n",
       "N", "A", "I", "U", "1", "2", "3", "5", "k", "j", "\"" >>

OrdCodes ==
    <<  37,  40,  41,  45,  43,  32,  35,  48,  57,  42,  46, 115,
       114,  97,  99, 100, 105, 117, 120,  88, 111, 101,  69, 102,
        70, 103,  71, 122,  39,   92,  98,  44, 123, 125,  58, 110,
        78,  65,  73,  85,  49,  50,  51,  53, 107, 106,   34 >>

ord == [ch \in {OrdChars[j] : j \in 1..47} |->
            OrdCodes[CHOOSE j \in 1..47 : OrdChars[j] = ch]]

Rep(ch, n) == [j \in 1..n |-> ch]

Min(m, n) == IF m <= n THEN m ELSE n
Max(m, n) == IF m >= n THEN m ELSE n

(* Python slices string[lo:hi] and string[lo:] with 0-based lo, hi >= 0.   *)
Slice(s, lo, hi) == SubSeq(s, lo + 1, Min(hi, Len(s)))
SliceFrom(s, lo) == SubSeq(s, lo + 1, Len(s))

RECURSIVE Concat(_)
Concat(ss) == IF ss = <<>> THEN <<>> ELSE Head(ss) \o Concat(Tail(ss))

(* sep.join(parts) *)
RECURSIVE Join(_, _)
Join(sep, parts) ==
    IF parts = <<>> THEN <<>>
    ELSE IF Len(parts) = 1 THEN Head(parts)
    ELSE Head(parts) \o sep \o Join(sep, Tail(parts))

---------------------------------------------------------------------------
(* Values an argument can be. *)

IntV(n) == [k |-> "int", v |-> n]
StrV(s) == [k |-> "str", v |-> s]
BytesV(b) == [k |-> "bytes", v |-> b]
(* A float: its sign bit, its class and, when finite, its (integral)       *)
(* magnitude.                                                              *)
FloatV(signbit, cls, mag) ==
    [k |-> "float", v |-> [signbit |-> signbit, cls |-> cls, mag |-> mag]]
TupleV(items) == [k |-> "tuple", v |-> items]
(* A dict: its items <<key, value>> in insertion order, keys distinct.     *)
DictV(items) == [k |-> "dict", v |-> items]
(* An object of a user class whose conversion hooks (__str__, __repr__,    *)
(* __bytes__, __int__, __index__, __float__ and, when `mapping`,           *)
(* __getitem__) all raise an exception of type `raises`.                   *)
ObjV(raises, mapping) ==
    [k |-> "obj", v |-> [raises |-> raises, mapping |-> mapping]]
NoValue == [k |-> "none"]
(* _builtins._Unbound, the sentinel for `no value yet` *)
_Unbound == [k |-> "unbound"]

_tuple_check(x) == x.k = "tuple"
_str_check(x) == x.k = "str"
_bytes_check(x) == x.k = "bytes"
_int_check(x) == x.k = "int"
_float_check(x) == x.k = "float"
_mapping_check(x) ==
    \/ x.k \in {"dict", "str", "bytes", "tuple"}
    \/ x.k = "obj" /\ x.v.mapping
_number_check(x) == x.k \in {"int", "float", "obj"}

TypeName(x) ==
    CASE x.k = "int" -> "int"
      [] x.k = "str" -> "str"
      [] x.k = "bytes" -> "bytes"
      [] x.k = "float" -> "float"
      [] x.k = "tuple" -> "tuple"
      [] x.k = "dict" -> "dict"
      [] x.k = "obj" -> "C"
      [] OTHER -> "NoneType"

---------------------------------------------------------------------------
(* Exceptions and the results of calls that may raise. *)

Err(type, msg) == [type |-> type, msg |-> msg, ch |-> -1, index |-> -1]
NoError == Err("", "")
(* The exception a failing hook of a user object raises. *)
HookError(type) == Err(type, "raised by a hook")

Ok(v) == [ok |-> TRUE, v |-> v, err |-> NoError]
Raise(e) == [ok |-> FALSE, v |-> <<>>, err |-> e]

---------------------------------------------------------------------------
(* Integers as text. *)

DigitChar(dgt, upper) ==
    IF dgt < 10 THEN ord["0"] + dgt
    ELSE IF upper THEN ord["A"] + (dgt - 10)
    ELSE ord["a"] + (dgt - 10)

(* The digits of n >= 0 in the given base, most significant first. *)
RECURSIVE Digits(_, _, _)
Digits(n, base, upper) ==
    IF n < base THEN <<DigitChar(n, upper)>>
    ELSE Digits(n \div base, base, upper) \o <<DigitChar(n % base, upper)>>

(* int.__str__(n) *)
IntStr(n) ==
    IF n < 0 THEN <<ord["-"]>> \o Digits(-n, 10, FALSE) ELSE Digits(n, 10, FALSE)

(* int.__format__(n, spec) for n >= 0 and spec one of "x", "X", "o". *)
_int_format(n, spec) ==
    CASE spec = "x" -> Digits(n, 16, FALSE)
      [] spec = "X" -> Digits(n, 16, TRUE)
      [] spec = "o" -> Digits(n, 8, FALSE)

(* Exactly `width` lower-case hex digits of n, zero-filled on the left. *)
HexFixed(n, width) ==
    LET Filled(ds) == Rep(ord["0"], width - Len(ds)) \o ds
    IN  Filled(Digits(n, 16, FALSE))

RECURSIVE Pow10(_)
Pow10(n) == IF n <= 0 THEN 1 ELSE 10 * Pow10(n - 1)

---------------------------------------------------------------------------
(* UTF-8: str.encode("utf-8") / bytes(s, "utf-8") and bytes.decode(). *)

MaxCodePoint == 1114111

IsSurrogate(cp) == 55296 <= cp /\ cp <= 57343

EncodeCodePoint(cp) ==
    IF cp < 128 THEN <<cp>>
    ELSE IF cp < 2048 THEN <<192 + (cp \div 64), 128 + (cp % 64)>>
    ELSE IF cp < 65536
        THEN <<224 + (cp \div 4096), 128 + ((cp \div 64) % 64), 128 + (cp % 64)>>
    ELSE <<240 + (cp \div 262144), 128 + ((cp \div 4096) % 64),
           128 + ((cp \div 64) % 64), 128 + (cp % 64)>>

Utf8Encode(text) ==
    IF \E j \in DOMAIN text : IsSurrogate(text[j])
    THEN Raise(Err("UnicodeEncodeError", "surrogates not allowed"))
    ELSE Ok(Concat([j \in DOMAIN text |-> EncodeCodePoint(text[j])]))

IsCont(b) == 128 <= b /\ b <= 191

(* The number of bytes of the UTF-8 sequence that starts bs, 0 if invalid. *)
Utf8SeqLen(bs) ==
    LET b1 == bs[1]
        cont(j) == Len(bs) >= j /\ IsCont(bs[j])
    IN  IF b1 < 128 THEN 1
        ELSE IF 194 <= b1 /\ b1 <= 223 /\ cont(2) THEN 2
        ELSE IF 224 <= b1 /\ b1 <= 239 /\ cont(2) /\ cont(3)
                /\ (b1 = 224 => bs[2] >= 160) /\ (b1 = 237 => bs[2] <= 159) THEN 3
        ELSE IF 240 <= b1 /\ b1 <= 244 /\ cont(2) /\ cont(3) /\ cont(4)
                /\ (b1 = 240 => bs[2] >= 144) /\ (b1 = 244 => bs[2] <= 143) THEN 4
        ELSE 0

Utf8CodePoint(bs, n) ==
    CASE n = 1 -> bs[1]
      [] n = 2 -> (bs[1] - 192) * 64 + (bs[2] - 128)
      [] n = 3 -> (bs[1] - 224) * 4096 + (bs[2] - 128) * 64 + (bs[3] - 128)
      [] n = 4 -> (bs[1] - 240) * 262144 + (bs[2] - 128) * 4096
                  + (bs[3] - 128) * 64 + (bs[4] - 128)

RECURSIVE Utf8Decode(_)
Utf8Decode(bytes) ==
    LET Then(rest, bs, n) ==
            IF rest.ok THEN Ok(<<Utf8CodePoint(bs, n)>> \o rest.v) ELSE rest
        Step(bs, n) ==
            IF n = 0
            THEN Raise(Err("UnicodeDecodeError", "'utf-8' codec can't decode"))
            ELSE CHOOSE r \in { Then(rest, bs, n) :
                                rest \in {Utf8Decode(SubSeq(bs, n + 1, Len(bs)))} } : TRUE
        Decoded(bs) ==
            IF bs = <<>> THEN Ok(<<>>)
            ELSE CHOOSE r \in { Step(bs, n) : n \in {Utf8SeqLen(bs)} } : TRUE
    IN  CHOOSE r \in { Decoded(bs) : bs \in {bytes} } : TRUE

---------------------------------------------------------------------------
(* repr(), str() and ascii() of the argument values. *)

EscapeChar(cp, quote) ==
    IF cp = quote \/ cp = ord["\\"] THEN <<ord["\\"], cp>>
    ELSE IF cp = 9 THEN <<ord["\\"], 116>>
    ELSE IF cp = 10 THEN <<ord["\\"], ord["n"]>>
    ELSE IF cp = 13 THEN <<ord["\\"], ord["r"]>>
    ELSE IF cp < 32 \/ (127 <= cp /\ cp <= 160)
        THEN <<ord["\\"], ord["x"]>> \o HexFixed(cp, 2)
    ELSE IF IsSurrogate(cp) THEN <<ord["\\"], ord["u"]>> \o HexFixed(cp, 4)
    ELSE <<cp>>

QuoteFor(s) ==
    IF (\E j \in DOMAIN s : s[j] = ord["'"]) /\ ~(\E j \in DOMAIN s : s[j] = ord["\""])
    THEN ord["\""] ELSE ord["'"]

(* repr(s) of a str: printable non-ASCII code points are kept. *)
StrRepr(s) ==
    LET Quoted(q) == <<q>> \o Concat([j \in DOMAIN s |-> EscapeChar(s[j], q)]) \o <<q>>
    IN  Quoted(QuoteFor(s))

(* repr(b) of a bytes object. *)
BytesRepr(b) ==
    LET Quoted(q) ==
            <<ord["b"], q>>
            \o Concat([j \in DOMAIN b |->
                    IF b[j] >= 127 THEN <<ord["\\"], ord["x"]>> \o HexFixed(b[j], 2)
                    ELSE EscapeChar(b[j], q)])
            \o <<q>>
    IN  Quoted(QuoteFor(b))

(* repr(f) of a float with an integral magnitude. *)
FloatRepr(f) ==
    CASE f.cls = "nan" -> <<ord["n"], ord["a"], ord["n"]>>
      [] f.cls = "inf" ->
            (IF f.signbit THEN <<ord["-"]>> ELSE <<>>) \o <<ord["i"], ord["n"], ord["f"]>>
      [] OTHER ->
            (IF f.signbit THEN <<ord["-"]>> ELSE <<>>)
            \o Digits(f.mag, 10, FALSE) \o <<ord["."], ord["0"]>>

FirstFailure(parts) ==
    CHOOSE j \in DOMAIN parts : ~parts[j].ok /\ \A h \in 1..(j - 1) : parts[h].ok

(* repr(x): the text, or the exception a __repr__ hook raised. *)
RECURSIVE Repr(_)
Repr(x) ==
    CASE x.k = "int" -> Ok(IntStr(x.v))
      [] x.k = "str" -> Ok(StrRepr(x.v))
      [] x.k = "bytes" -> Ok(BytesRepr(x.v))
      [] x.k = "float" -> Ok(FloatRepr(x.v))
      [] x.k = "tuple" ->
            LET Shown(parts) ==
                    IF \E j \in DOMAIN parts : ~parts[j].ok THEN parts[FirstFailure(parts)]
                    ELSE Ok(<<ord["("]>>
                            \o Join(<<ord[","], ord[" "]>>, [j \in DOMAIN parts |-> parts[j].v])
                            \o (IF Len(x.v) = 1 THEN <<ord[","]>> ELSE <<>>)
                            \o <<ord[")"]>>)
            IN  Shown([j \in DOMAIN x.v |-> Repr(x.v[j])])
      [] x.k = "dict" ->
            LET Shown(flat) ==
                    IF \E j \in DOMAIN flat : ~flat[j].ok THEN flat[FirstFailure(flat)]
                    ELSE Ok(<<ord["{"]>>
                            \o Join(<<ord[","], ord[" "]>>,
                                    [j \in DOMAIN x.v |->
                                        flat[2 * j - 1].v \o <<ord[":"], ord[" "]>>
                                        \o flat[2 * j].v])
                            \o <<ord["}"]>>)
            IN  Shown([j \in 1..(2 * Len(x.v)) |->
                            Repr(x.v[(j + 1) \div 2][IF j % 2 = 1 THEN 1 ELSE 2])])
      [] x.k = "obj" -> Raise(HookError(x.v.raises))
      [] x.k = "none" -> Ok(<<ord["N"], ord["o"], ord["n"], ord["e"]>>)

(* str(x): a str is itself, a user object runs __str__, the rest is repr. *)
Str(x) ==
    CASE x.k = "str" -> Ok(x.v)
      [] x.k = "obj" -> Raise(HookError(x.v.raises))
      [] OTHER -> Repr(x)

(* Every code point above 127 written as \xhh, \uhhhh or \Uhhhhhhhh. *)
AsciiEscape(cp) ==
    IF cp < 128 THEN <<cp>>
    ELSE IF cp < 256 THEN <<ord["\\"], ord["x"]>> \o HexFixed(cp, 2)
    ELSE IF cp < 65536 THEN <<ord["\\"], ord["u"]>> \o HexFixed(cp, 4)
    ELSE <<ord["\\"], ord["U"]>> \o HexFixed(cp, 8)

(* ascii(x) *)
Ascii(x) ==
    LET Escaped(r) ==
            IF r.ok THEN Ok(Concat([j \in DOMAIN r.v |-> AsciiEscape(r.v[j])])) ELSE r
    IN  Escaped(Repr(x))

---------------------------------------------------------------------------
(* Coercions the conversions call. *)

(* _index(x): operator.index *)
_index(x) ==
    CASE x.k = "int" -> Ok(x.v)
      [] x.k = "obj" -> Raise(HookError(x.v.raises))
      [] OTHER -> Raise(Err("TypeError", "object cannot be interpreted as an integer"))

(* int(x), for x that passed _number_check *)
IntOf(x) ==
    CASE x.k = "int" -> Ok(x.v)
      [] x.k = "float" ->
            CASE x.v.cls = "nan" ->
                    Raise(Err("ValueError", "cannot convert float NaN to integer"))
              [] x.v.cls = "inf" ->
                    Raise(Err("OverflowError", "cannot convert float infinity to integer"))
              [] OTHER -> Ok(IF x.v.signbit THEN -x.v.mag ELSE x.v.mag)
      [] x.k = "obj" -> Raise(HookError(x.v.raises))

(* _float(x): PyFloat_AsDouble *)
_float(x) ==
    CASE x.k = "float" -> Ok(x)
      [] x.k = "int" ->
            Ok(FloatV(x.v < 0, "finite", IF x.v < 0 THEN -x.v ELSE x.v))
      [] x.k = "obj" -> Raise(HookError(x.v.raises))
      [] OTHER -> Raise(Err("TypeError", "must be real number"))

_float_signbit(x) == x.v.signbit

(* value != value *)
IsNaN(x) == x.v.cls = "nan"

(* chr(n) *)
Chr(n) ==
    IF 0 <= n /\ n <= MaxCodePoint THEN Ok(<<n>>)
    ELSE Raise(Err("ValueError", "chr() arg not in range(0x110000)"))

(* One item of the iterable given to bytes(): an integer in 0..255. *)
ByteOf(item) ==
    CASE item.k = "int" ->
            IF 0 <= item.v /\ item.v <= 255 THEN Ok(item.v)
            ELSE Raise(Err("ValueError", "bytes must be in range(0, 256)"))
      [] item.k = "obj" -> Raise(HookError(item.v.raises))
      [] OTHER -> Raise(Err("TypeError", "object cannot be interpreted as an integer"))

BytesOfItems(items) ==
    LET Collected(parts) ==
            IF \E j \in DOMAIN parts : ~parts[j].ok THEN parts[FirstFailure(parts)]
            ELSE Ok([j \in DOMAIN parts |-> parts[j].v])
    IN  Collected([j \in DOMAIN items |-> ByteOf(items[j])])

(* bytes(x) with one argument *)
Bytes(x) ==
    CASE x.k = "bytes" -> Ok(x.v)
      [] x.k = "int" ->
            IF x.v < 0 THEN Raise(Err("ValueError", "negative count"))
            ELSE Ok(Rep(0, x.v))
      [] x.k = "str" -> Raise(Err("TypeError", "string argument without an encoding"))
      [] x.k = "tuple" -> BytesOfItems(x.v)
      [] x.k = "dict" -> BytesOfItems([j \in DOMAIN x.v |-> x.v[j][1]])
      [] x.k = "obj" -> Raise(HookError(x.v.raises))
      [] OTHER -> Raise(Err("TypeError", "cannot convert '" \o TypeName(x)
                                         \o "' object to bytes"))

---------------------------------------------------------------------------
(* _float_format(value, c, precision, True, False, use_alt_formatting):    *)
(* the digits of |value| without its sign, for a float of integral         *)
(* magnitude, NaN or infinity.                                             *)

IsUpperCode(c) == c \in {ord["E"], ord["F"], ord["G"]}

FloatSpecial(f, c) ==
    LET lower == IF f.cls = "nan" THEN <<ord["n"], ord["a"], ord["n"]>>
                 ELSE <<ord["i"], ord["n"], ord["f"]>>
    IN  IF IsUpperCode(c) THEN [j \in DOMAIN lower |-> lower[j] - 32] ELSE lower

(* Fixed notation: the integer digits, then `precision` zeros. *)
FloatFixed(mag, precision, alt) ==
    Digits(mag, 10, FALSE)
    \o (IF precision > 0 THEN <<ord["."]>> \o Rep(ord["0"], precision)
        ELSE IF alt THEN <<ord["."]>> ELSE <<>>)

(* mag rounded half-even to `sig` significant digits: <<digits value, exponent>> *)
RoundSig(mag, sig) ==
    LET Carry(m2, n) == IF m2 = Pow10(sig) THEN <<Pow10(sig - 1), n>> ELSE <<m2, n - 1>>
        Round(m, r, unit, n) ==
            Carry(IF (2 * r > unit) \/ (2 * r = unit /\ m % 2 = 1) THEN m + 1 ELSE m, n)
        Cut(unit, n) == Round(mag \div unit, mag % unit, unit, n)
        Sized(n) == IF n <= sig THEN <<mag * Pow10(sig - n), n - 1>>
                    ELSE Cut(Pow10(n - sig), n)
    IN  Sized(Len(Digits(mag, 10, FALSE)))

ExponentText(c, e) ==
    <<IF IsUpperCode(c) THEN ord["E"] ELSE ord["e"], ord["+"]>>
    \o (IF e < 10 THEN <<ord["0"]>> ELSE <<>>) \o Digits(e, 10, FALSE)

(* Scientific notation with `precision` digits after the point; `strip`    *)
(* drops the trailing zeros of the mantissa (the g conversions).           *)
FloatExp(mag, c, precision, alt, strip) ==
    LET Mantissa(first, keep) ==
            <<first>> \o (IF keep # <<>> THEN <<ord["."]>> \o keep
                          ELSE IF alt THEN <<ord["."]>> ELSE <<>>)
        Stripped(frac) ==
            SubSeq(frac, 1, Max(0, CHOOSE h \in 0..Len(frac) :
                /\ \A j \in (h + 1)..Len(frac) : frac[j] = ord["0"]
                /\ (h > 0 => frac[h] # ord["0"])))
        Shown(ds, e) ==
            Mantissa(Head(ds), IF strip THEN Stripped(Tail(ds)) ELSE Tail(ds))
            \o ExponentText(c, e)
        (* zero has precision + 1 digits too *)
        Filled(ds, e) == Shown(Rep(ord["0"], precision + 1 - Len(ds)) \o ds, e)
        Rounded(rs) == Filled(Digits(rs[1], 10, FALSE), rs[2])
    IN  Rounded(RoundSig(mag, precision + 1))

FloatGeneral(mag, c, precision, alt) ==
    LET Shown(p, e) ==
            IF e < p
            THEN IF alt THEN FloatFixed(mag, p - 1 - e, TRUE) ELSE Digits(mag, 10, FALSE)
            ELSE FloatExp(mag, c, p - 1, alt, ~alt)
        Sized(p) == Shown(p, RoundSig(mag, p)[2])
    IN  Sized(IF precision = 0 THEN 1 ELSE precision)

_float_format(value, c, precision, alt) ==
    LET f == value.v
    IN  IF f.cls # "finite" THEN FloatSpecial(f, c)
        ELSE IF c \in {ord["f"], ord["F"]} THEN FloatFixed(f.mag, precision, alt)
        ELSE IF c \in {ord["e"], ord["E"]} THEN FloatExp(f.mag, c, precision, alt, FALSE)
        ELSE FloatGeneral(f.mag, c, precision, alt)

---------------------------------------------------------------------------
(* The two flavors: StringLikeFormatter ("string"), BytesLikeFormatter     *)
(* ("bytes").                                                              *)

Flavors == {"string", "bytes"}

(* self.cast(s) for a str s: the value, or the exception raised. *)
cast(flavor, s) ==
    LET Encoded(b) == IF b.ok THEN Ok(BytesV(b.v)) ELSE b
    IN  IF flavor = "string" THEN Ok(StrV(s)) ELSE Encoded(Utf8Encode(s))

(* self.as_str(x): the text of x.  BytesLikeFormatter.as_str replaces a    *)
(* TypeError, whoever raised it, by its own.                               *)
as_str(flavor, x) ==
    LET Replaced(r) ==
            IF ~r.ok /\ r.err.type = "TypeError"
            THEN Raise(Err("TypeError",
                    "%b requires a bytes-like object, or an object that implements __bytes__, not '"
                    \o TypeName(x) \o "'"))
            ELSE r
        Decoded(b) == Replaced(IF b.ok THEN Utf8Decode(b.v) ELSE b)
    IN  IF flavor = "string" THEN Str(x) ELSE Decoded(Bytes(x))

(* self.as_repr(x) *)
as_repr(flavor, x) ==
    LET Escaped(r) ==
            IF flavor = "string" \/ ~r.ok THEN r
            ELSE Ok(Concat([j \in DOMAIN r.v |->
                        IF r.v[j] <= 255 THEN <<r.v[j]>>
                        ELSE <<ord["\\"], ord["U"]>> \o HexFixed(r.v[j], 8)]))
    IN  Escaped(Repr(x))

percent_c_not_in_range(flavor) ==
    IF flavor = "string" THEN Err("OverflowError", "%c arg not in range(0x110000)")
    ELSE Err("OverflowError", "%c arg not in range(256)")

percent_c_overflow(flavor) ==
    IF flavor = "string" THEN Err("TypeError", "%c requires int or char")
    ELSE Err("OverflowError", "%c arg not in range(256)")

percent_c_requires_int_or_char(flavor) ==
    IF flavor = "string" THEN Err("TypeError", "%c requires int or char")
    ELSE Err("TypeError", "%c requires an integer in range(256) or a single byte")

(* The message names the conversion character: [ch] carries it. *)
percent_d_a_number_is_required(flavor, c, tname) ==
    [Err("TypeError", "format: a number is required, not " \o tname)
        EXCEPT !.ch = IF flavor = "bytes" /\ c = ord["i"] THEN ord["d"] ELSE c]

must_be_real_number(flavor, float_exception, tname) ==
    IF flavor = "string" THEN float_exception
    ELSE Err("TypeError", "float argument required, not " \o tname)

not_all_arguments_converted(flavor) ==
    Err("TypeError", "not all arguments converted during " \o flavor \o " formatting")

---------------------------------------------------------------------------
(* The field renderers.  `flags` is the bit set of the code. *)

_FLAG_LJUST == 1
_FLAG_ZERO == 2

(* flags & flag, flags | flag *)
HasFlag(flags, flag) == (flags \div flag) % 2 = 1
SetFlag(flags, flag) == IF HasFlag(flags, flag) THEN flags ELSE flags + flag

(* _format_string keeping the whole fragment whatever the precision. *)
_format_string_NoTruncation(result, flags, width, precision, fragment0) ==
    LET fragment == fragment0
    IN  IF width <= 0 THEN result \o fragment
        ELSE LET padding_len == width - Len(fragment)
                 left == padding_len > 0 /\ ~HasFlag(flags, _FLAG_LJUST)
                 padding_len2 == IF left THEN 0 ELSE padding_len
             IN  result
                 \o (IF left THEN Rep(ord[" "], padding_len) ELSE <<>>)
                 \o fragment
                 \o (IF padding_len2 > 0 THEN Rep(ord[" "], padding_len2) ELSE <<>>)

(* _format_string: the result with the field appended. *)
_format_string(result, flags, width, precision, fragment0) ==
    LET fragment == IF precision >= 0 THEN Slice(fragment0, 0, precision) ELSE fragment0
    IN  IF width <= 0 THEN result \o fragment
        ELSE LET padding_len == width - Len(fragment)
                 left == padding_len > 0 /\ ~HasFlag(flags, _FLAG_LJUST)
                 padding_len2 == IF left THEN 0 ELSE padding_len
             IN  result
                 \o (IF left THEN Rep(ord[" "], padding_len) ELSE <<>>)
                 \o fragment
                 \o (IF padding_len2 > 0 THEN Rep(ord[" "], padding_len2) ELSE <<>>)

(* NumLeadingZeros extending the digits only under the zero-pad flag. *)
NumLeadingZeros_OnlyZeroPad(flags, width, precision, sign, prefix, fragment) ==
    LET fragment_len == Len(fragment)
        pad0 == width - fragment_len - Len(sign) - Len(prefix)
        zeros1 == IF precision >= 0 THEN precision - fragment_len ELSE 0
        pad1 == IF precision >= 0 /\ zeros1 > 0 THEN pad0 - zeros1 ELSE pad0
    IN  IF HasFlag(flags, _FLAG_ZERO) /\ ~HasFlag(flags, _FLAG_LJUST)
        THEN (IF pad1 > 0 THEN zeros1 + pad1 ELSE zeros1)
        ELSE 0

(* Variant of NumLeadingZeros in which the zero-pad flag fills the width   *)
(* with zeros whether left-justify is set or not.                          *)
NumLeadingZeros_IgnoresLeftJustify(flags, width, precision, sign, prefix, fragment) ==
    LET fragment_len == Len(fragment)
        pad0 == width - fragment_len - Len(sign) - Len(prefix)
        zeros1 == IF precision >= 0 THEN precision - fragment_len ELSE 0
        pad1 == IF precision >= 0 /\ zeros1 > 0 THEN pad0 - zeros1 ELSE pad0
    IN  IF HasFlag(flags, _FLAG_ZERO) /\ pad1 > 0
        THEN zeros1 + pad1 ELSE zeros1

(* num_leading_zeros of _format_number, as the code computes it. *)
NumLeadingZeros(flags, width, precision, sign, prefix, fragment) ==
    LET fragment_len == Len(fragment)
        pad0 == width - fragment_len - Len(sign) - Len(prefix)
        zeros1 == IF precision >= 0 THEN precision - fragment_len ELSE 0
        pad1 == IF precision >= 0 /\ zeros1 > 0 THEN pad0 - zeros1 ELSE pad0
    IN  IF HasFlag(flags, _FLAG_ZERO) /\ ~HasFlag(flags, _FLAG_LJUST) /\ pad1 > 0
        THEN zeros1 + pad1 ELSE zeros1

(* padding_len of _format_number when the result is composed. *)
PaddingLen(flags, width, precision, sign, prefix, fragment) ==
    LET fragment_len == Len(fragment)
        pad0 == width - fragment_len - Len(sign) - Len(prefix)
        zeros1 == IF precision >= 0 THEN precision - fragment_len ELSE 0
        pad1 == IF precision >= 0 /\ zeros1 > 0 THEN pad0 - zeros1 ELSE pad0
    IN  IF HasFlag(flags, _FLAG_ZERO) /\ ~HasFlag(flags, _FLAG_LJUST) THEN 0 ELSE pad1

(* _format_number putting the leading zeros before the sign. *)
_format_number_ZerosFirst(result, flags, width, precision, sign, prefix, fragment) ==
    IF width <= 0 /\ precision < 0 THEN result \o sign \o prefix \o fragment
    ELSE LET num_leading_zeros ==
                 NumLeadingZeros(flags, width, precision, sign, prefix, fragment)
             padding_len == PaddingLen(flags, width, precision, sign, prefix, fragment)
             left == padding_len > 0 /\ ~HasFlag(flags, _FLAG_LJUST)
             padding_len2 == IF left THEN 0 ELSE padding_len
         IN  result
             \o (IF left THEN Rep(ord[" "], padding_len) ELSE <<>>)
             \o (IF num_leading_zeros > 0 THEN Rep(ord["0"], num_leading_zeros) ELSE <<>>)
             \o sign
             \o prefix
             \o fragment
             \o (IF padding_len2 > 0 THEN Rep(ord[" "], padding_len2) ELSE <<>>)

(* _format_number: the result with the field appended. *)
_format_number(result, flags, width, precision, sign, prefix, fragment) ==
    IF width <= 0 /\ precision < 0 THEN result \o sign \o prefix \o fragment
    ELSE LET num_leading_zeros ==
                 NumLeadingZeros(flags, width, precision, sign, prefix, fragment)
             padding_len == PaddingLen(flags, width, precision, sign, prefix, fragment)
             left == padding_len > 0 /\ ~HasFlag(flags, _FLAG_LJUST)
             padding_len2 == IF left THEN 0 ELSE padding_len
         IN  result
             \o (IF left THEN Rep(ord[" "], padding_len) ELSE <<>>)
             \o sign
             \o prefix
             \o (IF num_leading_zeros > 0 THEN Rep(ord["0"], num_leading_zeros) ELSE <<>>)
             \o fragment
             \o (IF padding_len2 > 0 THEN Rep(ord[" "], padding_len2) ELSE <<>>)

---------------------------------------------------------------------------
(* The state of one call Formatter.format(string, args). *)

VARIABLES
    flavor,             \* "string" (StringLikeFormatter) or "bytes" (BytesLikeFormatter)
    template,           \* the `string` parameter as passed in
    args,               \* the `args` parameter
    pc,                 \* where the call is: "call", the scan positions, "stop", "done"
    string,             \* self.as_str(string), the text that is scanned
    args_dict,          \* NoValue for None
    args_tuple,
    args_len,
    arg_idx,
    result,             \* the _str_array
    idx,
    begin,
    in_specifier,
    it,                 \* str.__iter__(string): the number of items it has yielded
    c,
    pcount,
    keystart,
    key,
    flags,
    positive_sign,
    use_alt_formatting,
    width,
    precision,
    outcome,            \* what the call did: still running, returned a value, raised
    hook_raised         \* the exception the last failing user hook raised, if any

(* The state of one call of the generalized error handler,               *)
(* _codecs._call_decode_errorhandler or _codecs._call_encode_errorhandler. *)
VARIABLES
    handler_call,       \* the call: which of the two, its input, what is registered
    handler_pc,         \* "idle", "lookup", "invoke", "result", "position", "done"
    handler_result,     \* what the registered error_function returned
    output,             \* the _strarray a decode call appends to
    handler_outcome     \* what the call did

handlervars == <<handler_call, handler_pc, handler_result, output, handler_outcome>>

(* One itertools.groupby object, the _groupby_iterator objects it has      *)
(* handed out, and what the caller has seen of them.                       *)
VARIABLES
    iterable,           \* the items of the iterable given to groupby
    _keyfunc,           \* NoValue for None, or the name of the key function
    _it,                \* iter(iterable): how many items have been taken from it
    _lastkey,
    _currkey,
    _currvalue,
    groupers,           \* the _key of every _groupby_iterator, in order of creation
    pairs,              \* what groupby.__next__ has returned: key and grouper
    stops,              \* how often groupby.__next__ has raised StopIteration
    yielded,            \* for every grouper what its __next__ has returned
    exhausted           \* for every grouper whether its __next__ has raised StopIteration

groupbyvars ==
    <<iterable, _keyfunc, _it, _lastkey, _currkey, _currvalue, groupers, pairs, stops,
      yielded, exhausted>>

(* The iterators tee() has returned and their copies, the linked list of   *)
(* _tee_dataobject windows behind them, and what the caller has seen.      *)
VARIABLES
    tee_iterable,       \* the items of the iterable given to tee
    tee_it,             \* iter(iterable): how many items have been taken from it
    links,              \* the _tee_dataobject objects: _num_read, _next_link, _values
    tees,               \* the _tee objects: _data (a place in links) and _index
    taken,              \* for every _tee how many items of the source lie before its next
    tee_outcome         \* what the last _tee.__next__ did, and of which _tee

teevars == <<tee_iterable, tee_it, links, tees, taken, tee_outcome>>

inputs == <<flavor, template, args>>
argvars == <<args_dict, args_tuple, args_len, arg_idx>>
scanvars == <<string, idx, begin, in_specifier, it, c>>
namevars == <<pcount, keystart, key>>
dirvars == <<flags, positive_sign, use_alt_formatting, width, precision>>
formatvars == <<inputs, pc, argvars, scanvars, namevars, dirvars, result, outcome, hook_raised>>
itervars == <<groupbyvars, teevars>>
vars == <<formatvars, handlervars, itervars>>

Running == [status |-> "running", error |-> NoError, value |-> NoValue]
Raised(e) == [status |-> "raised", error |-> e, value |-> NoValue]
Returned(v) == [status |-> "returned", error |-> NoError, value |-> v]

(* No call of the error handler is under way. *)
NoHandlerCall ==
    /\ handler_call = NoValue
    /\ handler_pc = "idle"
    /\ handler_result = NoValue
    /\ output = <<>>
    /\ handler_outcome = Running

(* No groupby object exists. *)
NoGroupby ==
    /\ iterable = <<>>
    /\ _keyfunc = NoValue
    /\ _it = 0
    /\ _lastkey = _Unbound
    /\ _currkey = _Unbound
    /\ _currvalue = _Unbound
    /\ groupers = <<>>
    /\ pairs = <<>>
    /\ stops = 0
    /\ yielded = <<>>
    /\ exhausted = <<>>

(* tee has not been called. *)
NoTee ==
    /\ tee_iterable = <<>>
    /\ tee_it = 0
    /\ links = <<>>
    /\ tees = <<>>
    /\ taken = <<>>
    /\ tee_outcome = [tee |-> 0, outcome |-> Running]

NoIterators == NoGroupby /\ NoTee

(* An exception raised outside the try statement ends the call. *)
RaiseOutside(e) == pc' = "done" /\ outcome' = Raised(e)

(* An exception raised inside the try statement (lines 141-399): `except    *)
(* StopIteration` catches it when it is one, otherwise it ends the call.   *)
Throw(e) ==
    IF e.type = "StopIteration" THEN pc' = "stop" /\ UNCHANGED outcome
    ELSE pc' = "done" /\ outcome' = Raised(e)

(* c = it.__next__(); idx += 1; then on to Target(c).  The iterator raises *)
(* StopIteration once it has yielded every item.                           *)
NextChar(Target(_)) ==
    IF it < Len(string)
    THEN /\ c' = string[it + 1]
         /\ it' = it + 1
         /\ idx' = idx + 1
         /\ pc' = Target(string[it + 1])
         /\ UNCHANGED outcome
    ELSE /\ UNCHANGED <<c, it, idx>>
         /\ Throw(Err("StopIteration", ""))

(* The exception of a failed call when a user hook raised it. *)
HookFailure(r) ==
    IF ~r.ok /\ r.err = HookError(r.err.type) THEN r.err ELSE hook_raised

IsFlagChar(ch) == ch \in {ord["-"], ord["+"], ord[" "], ord["#"], ord["0"]}
IsDigit(ch) == ord["0"] <= ch /\ ch <= ord["9"]

(* _tuple_getitem(t, i).  It does not check i; the index is below the      *)
(* length wherever the code calls it, and an index past the end reads as   *)
(* None here.                                                              *)
_tuple_getitem(t, i) == IF i < Len(t) THEN t[i + 1] ELSE NoValue

(* NoArgumentLeft letting the index run one past the end. *)
NoArgumentLeft_PastEnd == arg_idx > args_len

(* `arg_idx >= args_len`, the test before every argument is taken (lines   *)
(* 217, 247 and 266).                                                      *)
NoArgumentLeft == arg_idx >= args_len

(* NextArg reading the first argument again. *)
NextArg_First == _tuple_getitem(args_tuple, 0)

NextArg == _tuple_getitem(args_tuple, arg_idx)

(* NotAMapping with the text test left out: a str has __getitem__ too. *)
NotAMapping_TextIsMapping == _tuple_check(args) \/ ~_mapping_check(args)

(* The lazy test of lines 164-168 and 411: the call's argument cannot      *)
(* serve as the mapping of named references.                               *)
NotAMapping == _tuple_check(args) \/ _str_check(args) \/ ~_mapping_check(args)

(* MappingRequired taking a tuple for a mapping. *)
MappingRequired_TupleIsMapping ==
    args_dict = NoValue /\ (_str_check(args) \/ ~_mapping_check(args))

(* Lines 162-169: a named reference is met and no mapping can be had. *)
MappingRequired == args_dict = NoValue /\ NotAMapping

(* ExcessArguments counting one argument too few. *)
ExcessArguments_OffByOne == arg_idx + 1 < args_len /\ args_dict = NoValue /\ NotAMapping

(* Lines 408-412: arguments are left over at the end of the template. *)
ExcessArguments == arg_idx < args_len /\ args_dict = NoValue /\ NotAMapping

(* unsupported_format_character reporting the position after the           *)
(* character.                                                              *)
unsupported_format_character_NextIndex(ch, index) ==
    [Err("ValueError", "unsupported format character") EXCEPT !.ch = ch, !.index = index + 1]

(* The exception of lines 394-396; [ch] and [index] carry what its message *)
(* names.                                                                  *)
unsupported_format_character(ch, index) ==
    [Err("ValueError", "unsupported format character") EXCEPT !.ch = ch, !.index = index]

(* args_dict[key]: a dict looks the key up, a user mapping runs its hook.  *)
Lookup(mapping, k) ==
    CASE mapping.k = "dict" ->
            IF \E j \in DOMAIN mapping.v : mapping.v[j][1] = k
            THEN Ok(mapping.v[CHOOSE j \in DOMAIN mapping.v : mapping.v[j][1] = k][2])
            ELSE Raise(Err("KeyError", "key"))
      [] mapping.k = "obj" -> Raise(HookError(mapping.v.raises))
      [] OTHER -> Raise(Err("TypeError", "indices must be integers"))

---------------------------------------------------------------------------
(* The conversions (lines 271-396) as functions of the directive: the new  *)
(* contents of `result`, or the exception raised.                          *)

(* Variant of SignOf in which a positive sign of the flags wins over '-'. *)
SignOf_FlagWins(negative, positive_sign0) ==
    IF positive_sign0 # <<>> THEN positive_sign0
    ELSE IF negative THEN <<ord["-"]>> ELSE <<>>

SignOf(negative, positive_sign0) == IF negative THEN <<ord["-"]>> ELSE positive_sign0

(* %s, %r, %a (lines 271-279) *)
FormatString(flavor0, conv, arg, result0, flags0, width0, precision0) ==
    LET Field(fragment) ==
            IF fragment.ok
            THEN Ok(_format_string(result0, flags0, width0, precision0, fragment.v))
            ELSE fragment
    IN  Field(CASE conv = ord["s"] -> as_str(flavor0, arg)
                [] conv = ord["r"] -> as_repr(flavor0, arg)
                [] conv = ord["a"] -> Ascii(arg))

(* The fragment of %c (lines 280-297) *)
CharFragment(flavor0, arg) ==
    LET Character(fragment) ==
            IF fragment.ok THEN fragment ELSE Raise(percent_c_not_in_range(flavor0))
        Indexed(value) ==
            IF ~value.ok THEN Raise(percent_c_requires_int_or_char(flavor0))
            ELSE Character(Chr(value.v))
    IN  IF _str_check(arg)
        THEN IF Len(arg.v) # 1 THEN Raise(percent_c_requires_int_or_char(flavor0))
             ELSE Ok(arg.v)
        ELSE Indexed(_index(arg))

(* %c (lines 280-298) *)
FormatChar(flavor0, arg, result0, flags0, width0, precision0) ==
    LET Field(fragment) ==
            IF fragment.ok
            THEN Ok(_format_string(result0, flags0, width0, precision0, fragment.v))
            ELSE fragment
    IN  Field(CharFragment(flavor0, arg))

(* The integer of %d, %i, %u (lines 300-306) *)
DecimalValue(flavor0, conv, arg) ==
    LET Checked(value) ==
            IF ~value.ok /\ value.err.type = "TypeError"
            THEN Raise(percent_d_a_number_is_required(flavor0, conv, TypeName(arg)))
            ELSE value
    IN  Checked(IF ~_number_check(arg) THEN Raise(Err("TypeError", "")) ELSE IntOf(arg))

(* %d, %i, %u (lines 299-313) *)
FormatDecimal(flavor0, conv, arg, result0, flags0, width0, precision0, positive_sign0) ==
    LET Field(value) ==
            IF ~value.ok THEN value
            ELSE Ok(_format_number(result0, flags0, width0, precision0,
                                   SignOf(value.v < 0, positive_sign0), <<>>,
                                   IntStr(IF value.v < 0 THEN -value.v ELSE value.v)))
    IN  Field(DecimalValue(flavor0, conv, arg))

(* The integer of %x, %X, %o (lines 315-322, 334-341, 353-361) *)
IndexValue(conv, arg) ==
    LET Checked(value) ==
            IF ~value.ok /\ value.err.type = "TypeError"
            THEN Raise([Err("TypeError", "format: an integer is required, not "
                                         \o TypeName(arg)) EXCEPT !.ch = conv])
            ELSE value
    IN  Checked(IF ~_number_check(arg) THEN Raise(Err("TypeError", "")) ELSE _index(arg))

(* %x, %X, %o (lines 314-371) *)
FormatInteger(conv, arg, result0, flags0, width0, precision0, positive_sign0, alt) ==
    LET Field(value, code) ==
            IF ~value.ok THEN value
            ELSE Ok(_format_number(result0, flags0, width0, precision0,
                                   SignOf(value.v < 0, positive_sign0),
                                   IF alt THEN <<ord["0"], conv>> ELSE <<>>,
                                   _int_format(IF value.v < 0 THEN -value.v ELSE value.v,
                                               code)))
    IN  Field(IndexValue(conv, arg),
              CASE conv = ord["x"] -> "x" [] conv = ord["X"] -> "X" [] conv = ord["o"] -> "o")

(* The float of %e ... %G (lines 373-381) *)
FloatValue(flavor0, arg) ==
    LET Checked(value) ==
            IF value.ok THEN value
            ELSE IF value.err.type = "TypeError"
            THEN Raise(must_be_real_number(flavor0, value.err, TypeName(arg)))
            ELSE value
    IN  Checked(_float(arg))

(* Variant of FormatFloat without the `value != value` test: the sign bit  *)
(* alone decides the sign.                                                 *)
FormatFloat_SignBitOnly(flavor0, conv, arg, result0, flags0, width0, precision0, positive_sign0, alt) ==
    LET Field(value) ==
            IF ~value.ok THEN value
            ELSE Ok(_format_number(result0, flags0, width0, 0,
                        SignOf(_float_signbit(value.v), positive_sign0),
                        <<>>,
                        _float_format(value.v, conv,
                                      IF precision0 < 0 THEN 6 ELSE precision0, alt)))
    IN  Field(FloatValue(flavor0, arg))

(* %e, %E, %f, %F, %g, %G (lines 372-392) *)
FormatFloat(flavor0, conv, arg, result0, flags0, width0, precision0, positive_sign0, alt) ==
    LET Field(value) ==
            IF ~value.ok THEN value
            ELSE Ok(_format_number(result0, flags0, width0, 0,
                        SignOf(_float_signbit(value.v) /\ ~IsNaN(value.v), positive_sign0),
                        <<>>,
                        _float_format(value.v, conv,
                                      IF precision0 < 0 THEN 6 ELSE precision0, alt)))
    IN  Field(FloatValue(flavor0, arg))

StringConversions == {ord["s"], ord["r"], ord["a"]}
DecimalConversions == {ord["d"], ord["i"], ord["u"]}
IntegerConversions == {ord["x"], ord["X"], ord["o"]}
FloatConversions == {ord["e"], ord["E"], ord["f"], ord["F"], ord["g"], ord["G"]}
Conversions ==
    StringConversions \cup {ord["c"]} \cup DecimalConversions
    \cup IntegerConversions \cup FloatConversions

---------------------------------------------------------------------------
(* The actions: Formatter.format, lines 124-413. *)

More == it < Len(string)
Peek == string[it + 1]

(* Lines 125-140: the entry of format, up to the iterator. *)
Call ==
    /\ pc = "call"
    /\ LET Enter(s) ==
               IF ~s.ok
               THEN /\ RaiseOutside(s.err)
                    /\ UNCHANGED <<argvars, scanvars, result>>
               ELSE /\ string' = s.v
                    /\ args_dict' = NoValue
                    /\ args_tuple' = IF _tuple_check(args) THEN args.v ELSE <<args>>
                    /\ args_len' = IF _tuple_check(args) THEN Len(args.v) ELSE 1
                    /\ arg_idx' = 0
                    /\ result' = <<>>
                    /\ idx' = -1
                    /\ begin' = 0
                    /\ in_specifier' = FALSE
                    /\ it' = 0
                    /\ pc' = "scan"
                    /\ UNCHANGED <<c, outcome>>
       IN  Enter(as_str(flavor, template))
    /\ UNCHANGED <<inputs, namevars, dirvars, hook_raised>>
    /\ UNCHANGED <<handlervars, itervars>>

(* ScanLiteral forgetting to mark the directive it opens. *)
ScanLiteral_DirectiveUnmarked ==
    /\ pc = "scan"
    /\ NextChar(LAMBDA ch : IF ch = ord["%"] THEN "spec" ELSE "scan")
    /\ result' = IF More /\ Peek = ord["%"]
                 THEN result \o Slice(string, begin, idx + 1) ELSE result
    /\ UNCHANGED <<inputs, argvars, string, begin, in_specifier, namevars, dirvars,
                   hook_raised>>
    /\ UNCHANGED <<handlervars, itervars>>

(* Lines 143-150: one unit of literal text, or the `%` that opens a        *)
(* directive.                                                              *)
ScanLiteral ==
    /\ pc = "scan"
    /\ NextChar(LAMBDA ch : IF ch = ord["%"] THEN "spec" ELSE "scan")
    /\ result' = IF More /\ Peek = ord["%"]
                 THEN result \o Slice(string, begin, idx + 1) ELSE result
    /\ in_specifier' = IF More /\ Peek = ord["%"] THEN TRUE ELSE in_specifier
    /\ UNCHANGED <<inputs, argvars, string, begin, namevars, dirvars, hook_raised>>
    /\ UNCHANGED <<handlervars, itervars>>

(* BeginSpecifier resuming the literal text at the second `%` itself. *)
BeginSpecifier_ResumeAtPercent ==
    /\ pc = "spec"
    /\ IF ~More
       THEN /\ Throw(Err("StopIteration", ""))
            /\ UNCHANGED <<c, it, idx, result, begin, in_specifier, args_dict,
                           pcount, keystart, flags, positive_sign, use_alt_formatting>>
       ELSE /\ c' = Peek
            /\ it' = it + 1
            /\ idx' = idx + 1
            /\ IF Peek = ord["%"]
               THEN /\ result' = result \o <<ord["%"]>>
                    /\ begin' = idx + 1
                    /\ in_specifier' = FALSE
                    /\ pc' = "scan"
                    /\ UNCHANGED <<outcome, args_dict, pcount, keystart, flags,
                                   positive_sign, use_alt_formatting>>
               ELSE IF Peek = ord["("]
               THEN /\ IF MappingRequired
                       THEN /\ Throw(Err("TypeError", "format requires a mapping"))
                            /\ UNCHANGED <<args_dict, pcount, keystart>>
                       ELSE /\ args_dict' = args
                            /\ pcount' = 1
                            /\ keystart' = idx + 2
                            /\ pc' = "name"
                            /\ UNCHANGED outcome
                    /\ UNCHANGED <<result, begin, in_specifier, flags, positive_sign,
                                   use_alt_formatting>>
               ELSE /\ flags' = 0
                    /\ positive_sign' = <<>>
                    /\ use_alt_formatting' = FALSE
                    /\ pc' = "flags"
                    /\ UNCHANGED <<outcome, result, begin, in_specifier, args_dict,
                                   pcount, keystart>>
    /\ UNCHANGED <<inputs, string, args_tuple, args_len, arg_idx, key, width, precision,
                   hook_raised>>
    /\ UNCHANGED <<handlervars, itervars>>

(* Lines 151-174 and 195-197: the unit after `%`: an escaped `%`, the `(`  *)
(* of a named reference, or the first unit of the flags.                   *)
BeginSpecifier ==
    /\ pc = "spec"
    /\ IF ~More
       THEN /\ Throw(Err("StopIteration", ""))
            /\ UNCHANGED <<c, it, idx, result, begin, in_specifier, args_dict,
                           pcount, keystart, flags, positive_sign, use_alt_formatting>>
       ELSE /\ c' = Peek
            /\ it' = it + 1
            /\ idx' = idx + 1
            /\ IF Peek = ord["%"]
               THEN /\ result' = result \o <<ord["%"]>>
                    /\ begin' = idx + 2
                    /\ in_specifier' = FALSE
                    /\ pc' = "scan"
                    /\ UNCHANGED <<outcome, args_dict, pcount, keystart, flags,
                                   positive_sign, use_alt_formatting>>
               ELSE IF Peek = ord["("]
               THEN /\ IF MappingRequired
                       THEN /\ Throw(Err("TypeError", "format requires a mapping"))
                            /\ UNCHANGED <<args_dict, pcount, keystart>>
                       ELSE /\ args_dict' = args
                            /\ pcount' = 1
                            /\ keystart' = idx + 2
                            /\ pc' = "name"
                            /\ UNCHANGED outcome
                    /\ UNCHANGED <<result, begin, in_specifier, flags, positive_sign,
                                   use_alt_formatting>>
               ELSE /\ flags' = 0
                    /\ positive_sign' = <<>>
                    /\ use_alt_formatting' = FALSE
                    /\ pc' = "flags"
                    /\ UNCHANGED <<outcome, result, begin, in_specifier, args_dict,
                                   pcount, keystart>>
    /\ UNCHANGED <<inputs, string, args_tuple, args_len, arg_idx, key, width, precision,
                   hook_raised>>
    /\ UNCHANGED <<handlervars, itervars>>

(* ScanName ending the name at the first `)` whatever the nesting. *)
ScanName_FirstParen ==
    /\ pc = "name"
    /\ LET pcount2 == IF Peek = ord[")"] THEN 0 ELSE pcount
       IN  /\ NextChar(LAMBDA ch : IF pcount2 > 0 THEN "name" ELSE "lookup")
           /\ pcount' = IF More THEN pcount2 ELSE pcount
           /\ key' = IF More /\ pcount2 = 0 THEN Slice(string, keystart, idx + 1) ELSE key
    /\ UNCHANGED <<inputs, argvars, string, begin, in_specifier, keystart, dirvars,
                   result, hook_raised>>
    /\ UNCHANGED <<handlervars, itervars>>

(* Lines 175-182: one unit of the parenthesised name. *)
ScanName ==
    /\ pc = "name"
    /\ LET pcount2 == IF Peek = ord[")"] THEN pcount - 1
                      ELSE IF Peek = ord["("] THEN pcount + 1 ELSE pcount
       IN  /\ NextChar(LAMBDA ch : IF pcount2 > 0 THEN "name" ELSE "lookup")
           /\ pcount' = IF More THEN pcount2 ELSE pcount
           /\ key' = IF More /\ pcount2 = 0 THEN Slice(string, keystart, idx + 1) ELSE key
    /\ UNCHANGED <<inputs, argvars, string, begin, in_specifier, keystart, dirvars,
                   result, hook_raised>>
    /\ UNCHANGED <<handlervars, itervars>>

(* LookupName leaving the positional arguments in place once the name is   *)
(* found.                                                                  *)
LookupName_KeepsPositional ==
    /\ pc = "lookup"
    /\ IF ~More
       THEN /\ Throw(Err("StopIteration", ""))
            /\ UNCHANGED <<c, it, idx, flags, positive_sign, use_alt_formatting,
                           hook_raised>>
       ELSE LET Found(name, value) ==
                    /\ c' = Peek
                    /\ it' = it + 1
                    /\ idx' = idx + 1
                    /\ hook_raised' = IF name.ok /\ ~value.ok THEN value.err
                                      ELSE hook_raised
                    /\ IF ~value.ok
                       THEN /\ Throw(value.err)
                            /\ UNCHANGED <<flags, positive_sign, use_alt_formatting>>
                       ELSE /\ flags' = 0
                            /\ positive_sign' = <<>>
                            /\ use_alt_formatting' = FALSE
                            /\ pc' = "flags"
                            /\ UNCHANGED outcome
                Named(name) ==
                    Found(name, IF name.ok THEN Lookup(args_dict, name.v) ELSE name)
            IN  Named(cast(flavor, key))
    /\ UNCHANGED <<inputs, argvars, string, begin, in_specifier, namevars, width,
                   precision, result>>
    /\ UNCHANGED <<handlervars, itervars>>

(* Lines 184-197: the unit after the closing `)`, then the lookup of the   *)
(* name, whose value becomes the argument tuple.                           *)
LookupName ==
    /\ pc = "lookup"
    /\ IF ~More
       THEN /\ Throw(Err("StopIteration", ""))
            /\ UNCHANGED <<c, it, idx, args_tuple, args_len, arg_idx, flags,
                           positive_sign, use_alt_formatting, hook_raised>>
       ELSE LET Found(name, value) ==
                    /\ c' = Peek
                    /\ it' = it + 1
                    /\ idx' = idx + 1
                    /\ hook_raised' = IF name.ok /\ ~value.ok THEN value.err
                                      ELSE hook_raised
                    /\ IF ~value.ok
                       THEN /\ Throw(value.err)
                            /\ UNCHANGED <<args_tuple, args_len, arg_idx, flags,
                                           positive_sign, use_alt_formatting>>
                       ELSE /\ args_tuple' = <<value.v>>
                            /\ args_len' = 1
                            /\ arg_idx' = 0
                            /\ flags' = 0
                            /\ positive_sign' = <<>>
                            /\ use_alt_formatting' = FALSE
                            /\ pc' = "flags"
                            /\ UNCHANGED outcome
                Named(name) ==
                    Found(name, IF name.ok THEN Lookup(args_dict, name.v) ELSE name)
            IN  Named(cast(flavor, key))
    /\ UNCHANGED <<inputs, args_dict, string, begin, in_specifier, namevars, width,
                   precision, result>>
    /\ UNCHANGED <<handlervars, itervars>>

(* ParseFlag without the it.__next__() that ends the loop body. *)
ParseFlag_NoAdvance ==
    /\ pc = "flags"
    /\ IsFlagChar(c)
    /\ flags' = IF c = ord["-"] THEN SetFlag(flags, _FLAG_LJUST)
                ELSE IF c = ord["0"] THEN SetFlag(flags, _FLAG_ZERO) ELSE flags
    /\ positive_sign' = IF c = ord["+"] THEN <<ord["+"]>>
                        ELSE IF c = ord[" "] /\ positive_sign # <<ord["+"]>>
                        THEN <<ord[" "]>> ELSE positive_sign
    /\ use_alt_formatting' = IF c = ord["#"] THEN TRUE ELSE use_alt_formatting
    /\ UNCHANGED <<pc, c, it, idx, outcome>>
    /\ UNCHANGED <<inputs, argvars, string, begin, in_specifier, namevars, width,
                   precision, result, hook_raised>>
    /\ UNCHANGED <<handlervars, itervars>>

(* ParseFlag letting a space replace a '+' read before it. *)
ParseFlag_SpaceOverrides ==
    /\ pc = "flags"
    /\ IsFlagChar(c)
    /\ flags' = IF c = ord["-"] THEN SetFlag(flags, _FLAG_LJUST)
                ELSE IF c = ord["0"] THEN SetFlag(flags, _FLAG_ZERO) ELSE flags
    /\ positive_sign' = IF c = ord["+"] THEN <<ord["+"]>>
                        ELSE IF c = ord[" "]
                        THEN <<ord[" "]>> ELSE positive_sign
    /\ use_alt_formatting' = IF c = ord["#"] THEN TRUE ELSE use_alt_formatting
    /\ NextChar(LAMBDA ch : "flags")
    /\ UNCHANGED <<inputs, argvars, string, begin, in_specifier, namevars, width,
                   precision, result, hook_raised>>
    /\ UNCHANGED <<handlervars, itervars>>

(* Lines 198-213: one flag. *)
ParseFlag ==
    /\ pc = "flags"
    /\ IsFlagChar(c)
    /\ flags' = IF c = ord["-"] THEN SetFlag(flags, _FLAG_LJUST)
                ELSE IF c = ord["0"] THEN SetFlag(flags, _FLAG_ZERO) ELSE flags
    /\ positive_sign' = IF c = ord["+"] THEN <<ord["+"]>>
                        ELSE IF c = ord[" "] /\ positive_sign # <<ord["+"]>>
                        THEN <<ord[" "]>> ELSE positive_sign
    /\ use_alt_formatting' = IF c = ord["#"] THEN TRUE ELSE use_alt_formatting
    /\ NextChar(LAMBDA ch : "flags")
    /\ UNCHANGED <<inputs, argvars, string, begin, in_specifier, namevars, width,
                   precision, result, hook_raised>>
    /\ UNCHANGED <<handlervars, itervars>>

(* The scan is at line 216: the flags are over. *)
AtWidth == pc = "flags" /\ ~IsFlagChar(c)

(* ParseWidthStar leaving a negative width negative. *)
ParseWidthStar_KeepsSign ==
    /\ AtWidth
    /\ c = ord["*"]
    /\ IF NoArgumentLeft
       THEN /\ Throw(Err("TypeError", "not enough arguments for format string"))
            /\ width' = -1
            /\ UNCHANGED <<arg_idx, flags, c, it, idx>>
       ELSE LET arg == NextArg
            IN  /\ arg_idx' = arg_idx + 1
                /\ IF ~_int_check(arg)
                   THEN /\ Throw(Err("TypeError", "* wants int"))
                        /\ width' = -1
                        /\ UNCHANGED <<flags, c, it, idx>>
                   ELSE /\ width' = arg.v
                        /\ flags' = IF arg.v < 0 THEN SetFlag(flags, _FLAG_LJUST) ELSE flags
                        /\ NextChar(LAMBDA ch : "prec")
    /\ UNCHANGED <<inputs, args_dict, args_tuple, args_len, string, begin, in_specifier,
                   namevars, positive_sign, use_alt_formatting, precision, result,
                   hook_raised>>
    /\ UNCHANGED <<handlervars, itervars>>

(* ParseWidthStar taking the absolute value without setting left-justify. *)
ParseWidthStar_NoLeftJustify ==
    /\ AtWidth
    /\ c = ord["*"]
    /\ IF NoArgumentLeft
       THEN /\ Throw(Err("TypeError", "not enough arguments for format string"))
            /\ width' = -1
            /\ UNCHANGED <<arg_idx, flags, c, it, idx>>
       ELSE LET arg == NextArg
            IN  /\ arg_idx' = arg_idx + 1
                /\ IF ~_int_check(arg)
                   THEN /\ Throw(Err("TypeError", "* wants int"))
                        /\ width' = -1
                        /\ UNCHANGED <<flags, c, it, idx>>
                   ELSE /\ width' = IF arg.v < 0 THEN -arg.v ELSE arg.v
                        /\ flags' = flags
                        /\ NextChar(LAMBDA ch : "prec")
    /\ UNCHANGED <<inputs, args_dict, args_tuple, args_len, string, begin, in_specifier,
                   namevars, positive_sign, use_alt_formatting, precision, result,
                   hook_raised>>
    /\ UNCHANGED <<handlervars, itervars>>

(* Lines 215-229: a `*` width, taken from the arguments. *)
ParseWidthStar ==
    /\ AtWidth
    /\ c = ord["*"]
    /\ IF NoArgumentLeft
       THEN /\ Throw(Err("TypeError", "not enough arguments for format string"))
            /\ width' = -1
            /\ UNCHANGED <<arg_idx, flags, c, it, idx>>
       ELSE LET arg == NextArg
            IN  /\ arg_idx' = arg_idx + 1
                /\ IF ~_int_check(arg)
                   THEN /\ Throw(Err("TypeError", "* wants int"))
                        /\ width' = -1
                        /\ UNCHANGED <<flags, c, it, idx>>
                   ELSE /\ width' = IF arg.v < 0 THEN -arg.v ELSE arg.v
                        /\ flags' = IF arg.v < 0 THEN SetFlag(flags, _FLAG_LJUST) ELSE flags
                        /\ NextChar(LAMBDA ch : "prec")
    /\ UNCHANGED <<inputs, args_dict, args_tuple, args_len, string, begin, in_specifier,
                   namevars, positive_sign, use_alt_formatting, precision, result,
                   hook_raised>>
    /\ UNCHANGED <<handlervars, itervars>>

(* Lines 230-238: one digit of a literal width. *)
ParseWidthDigit ==
    /\ AtWidth \/ pc = "wdigits"
    /\ IsDigit(c)
    /\ width' = (IF pc = "flags" THEN 0 ELSE width * 10) + (c - ord["0"])
    /\ NextChar(LAMBDA ch : "wdigits")
    /\ UNCHANGED <<inputs, argvars, string, begin, in_specifier, namevars, flags,
                   positive_sign, use_alt_formatting, precision, result, hook_raised>>
    /\ UNCHANGED <<handlervars, itervars>>

(* The scan is at line 241: the width is over. *)
AtPrecision ==
    \/ AtWidth /\ c # ord["*"] /\ ~IsDigit(c)
    \/ pc = "wdigits" /\ ~IsDigit(c)
    \/ pc = "prec"

(* `width` at line 241 *)
WidthNow == IF pc = "flags" THEN -1 ELSE width

(* Lines 240-245: the `.` that opens a precision. *)
ParsePrecisionDot ==
    /\ AtPrecision
    /\ c = ord["."]
    /\ width' = WidthNow
    /\ precision' = 0
    /\ NextChar(LAMBDA ch : "precstart")
    /\ UNCHANGED <<inputs, argvars, string, begin, in_specifier, namevars, flags,
                   positive_sign, use_alt_formatting, result, hook_raised>>
    /\ UNCHANGED <<handlervars, itervars>>

(* Lines 246-255: a `*` precision, taken from the arguments. *)
ParsePrecisionStar ==
    /\ pc = "precstart"
    /\ c = ord["*"]
    /\ IF NoArgumentLeft
       THEN /\ Throw(Err("TypeError", "not enough arguments for format string"))
            /\ UNCHANGED <<arg_idx, precision, c, it, idx>>
       ELSE LET arg == NextArg
            IN  /\ arg_idx' = arg_idx + 1
                /\ IF ~_int_check(arg)
                   THEN /\ Throw(Err("TypeError", "* wants int"))
                        /\ UNCHANGED <<precision, c, it, idx>>
                   ELSE /\ precision' = Max(0, arg.v)
                        /\ NextChar(LAMBDA ch : "conv")
    /\ UNCHANGED <<inputs, args_dict, args_tuple, args_len, string, begin, in_specifier,
                   namevars, flags, positive_sign, use_alt_formatting, width, result,
                   hook_raised>>
    /\ UNCHANGED <<handlervars, itervars>>

(* Lines 256-263: one digit of a literal precision. *)
ParsePrecisionDigit ==
    /\ pc \in {"precstart", "pdigits"}
    /\ IsDigit(c)
    /\ precision' = precision * 10 + (c - ord["0"])
    /\ NextChar(LAMBDA ch : "pdigits")
    /\ UNCHANGED <<inputs, argvars, string, begin, in_specifier, namevars, flags,
                   positive_sign, use_alt_formatting, width, result, hook_raised>>
    /\ UNCHANGED <<handlervars, itervars>>

(* The scan is at line 266: c is in the conversion position. *)
AtConversion ==
    \/ AtPrecision /\ c # ord["."]
    \/ pc = "precstart" /\ c # ord["*"] /\ ~IsDigit(c)
    \/ pc = "pdigits" /\ ~IsDigit(c)
    \/ pc = "conv"

(* `precision` at line 266 *)
PrecisionNow == IF AtPrecision THEN -1 ELSE precision

(* Lines 266-267: no argument is left for the directive. *)
NotEnoughArguments ==
    /\ AtConversion
    /\ NoArgumentLeft
    /\ Throw(Err("TypeError", "not enough arguments for format string"))
    /\ width' = WidthNow
    /\ precision' = PrecisionNow
    /\ UNCHANGED <<inputs, argvars, scanvars, namevars, flags, positive_sign,
                   use_alt_formatting, result, hook_raised>>
    /\ UNCHANGED <<handlervars, itervars>>

(* Lines 268-269, the end of a directive (398-399), and what is common to  *)
(* the conversions: r is the new `result` or the exception, raw the result *)
(* of the coercion the conversion called.                                  *)
Converted(r, raw, precision2) ==
    /\ arg_idx' = arg_idx + 1
    /\ width' = WidthNow
    /\ precision' = precision2
    /\ hook_raised' = HookFailure(raw)
    /\ IF r.ok
       THEN /\ result' = r.v
            /\ begin' = idx + 1
            /\ in_specifier' = FALSE
            /\ pc' = "scan"
            /\ UNCHANGED outcome
       ELSE /\ Throw(r.err)
            /\ UNCHANGED <<result, begin, in_specifier>>
    /\ UNCHANGED <<inputs, args_dict, args_tuple, args_len, string, idx, it, c, namevars,
                   flags, positive_sign, use_alt_formatting>>

(* Lines 271-279: %s, %r, %a *)
ConvertString ==
    /\ AtConversion
    /\ ~NoArgumentLeft
    /\ c \in StringConversions
    /\ Converted(FormatString(flavor, c, NextArg, result, flags, WidthNow, PrecisionNow),
                 IF c = ord["s"] THEN (IF flavor = "string" THEN Str(NextArg)
                                       ELSE Bytes(NextArg))
                 ELSE Repr(NextArg),
                 PrecisionNow)
    /\ UNCHANGED <<handlervars, itervars>>

(* Lines 280-298: %c *)
ConvertChar ==
    /\ AtConversion
    /\ ~NoArgumentLeft
    /\ c = ord["c"]
    /\ Converted(FormatChar(flavor, NextArg, result, flags, WidthNow, PrecisionNow),
                 IF _str_check(NextArg) THEN Ok(0) ELSE _index(NextArg),
                 PrecisionNow)
    /\ UNCHANGED <<handlervars, itervars>>

(* Lines 299-313: %d, %i, %u *)
ConvertDecimal ==
    /\ AtConversion
    /\ ~NoArgumentLeft
    /\ c \in DecimalConversions
    /\ Converted(FormatDecimal(flavor, c, NextArg, result, flags, WidthNow, PrecisionNow,
                               positive_sign),
                 IF _number_check(NextArg) THEN IntOf(NextArg) ELSE Ok(0),
                 PrecisionNow)
    /\ UNCHANGED <<handlervars, itervars>>

(* Lines 314-371: %x, %X, %o *)
ConvertInteger ==
    /\ AtConversion
    /\ ~NoArgumentLeft
    /\ c \in IntegerConversions
    /\ Converted(FormatInteger(c, NextArg, result, flags, WidthNow, PrecisionNow,
                               positive_sign, use_alt_formatting),
                 IF _number_check(NextArg) THEN _index(NextArg) ELSE Ok(0),
                 PrecisionNow)
    /\ UNCHANGED <<handlervars, itervars>>

(* Lines 372-392: %e, %E, %f, %F, %g, %G *)
ConvertFloat ==
    /\ AtConversion
    /\ ~NoArgumentLeft
    /\ c \in FloatConversions
    /\ Converted(FormatFloat(flavor, c, NextArg, result, flags, WidthNow, PrecisionNow,
                             positive_sign, use_alt_formatting),
                 _float(NextArg),
                 IF FloatValue(flavor, NextArg).ok /\ PrecisionNow < 0 THEN 6
                 ELSE PrecisionNow)
    /\ UNCHANGED <<handlervars, itervars>>

(* Lines 393-396: any other unit in the conversion position. *)
UnsupportedConversion ==
    /\ AtConversion
    /\ ~NoArgumentLeft
    /\ c \notin Conversions
    /\ Converted(Raise(unsupported_format_character(c, idx)), Ok(0), PrecisionNow)
    /\ UNCHANGED <<handlervars, itervars>>

(* Lines 400-413: the StopIteration handler and the code after the loop.   *)
Finish ==
    /\ pc = "stop"
    /\ LET Return(value) ==
               IF ~value.ok THEN RaiseOutside(value.err)
               ELSE pc' = "done" /\ outcome' = Returned(value.v)
           Leave(tail) ==
               /\ result' = tail
               /\ IF ExcessArguments
                  THEN RaiseOutside(not_all_arguments_converted(flavor))
                  ELSE Return(cast(flavor, tail))
       IN  IF idx + 1 # Len(string)
           THEN RaiseOutside(Err("AssertionError", "")) /\ UNCHANGED result
           ELSE IF in_specifier
           THEN RaiseOutside(Err("ValueError", "incomplete format")) /\ UNCHANGED result
           ELSE Leave(result \o SliceFrom(string, begin))
    /\ UNCHANGED <<inputs, argvars, scanvars, namevars, dirvars, hook_raised>>
    /\ UNCHANGED <<handlervars, itervars>>

---------------------------------------------------------------------------
(* The calls that are explored: four families of (flavor, template, args). *)

MaxLen == 3
MaxFlags == 2
MaxDirectives == 2

(* Every sequence over `alphabet` of length at most n. *)
RECURSIVE SeqsUpTo(_, _)
SeqsUpTo(alphabet, n) ==
    LET Grown(shorter) == shorter \cup {Append(s, ch) : s \in shorter, ch \in alphabet}
    IN  IF n = 0 THEN {<<>>} ELSE Grown(SeqsUpTo(alphabet, n - 1))

Chars(names) == {ord[ch] : ch \in names}
Txt(names) == [j \in DOMAIN names |-> ord[names[j]]]

Input(f, t, a) == [flavor |-> f, template |-> t, args |-> a]

(* A template or a mapping key as the flavor's own type. *)
Native(f, text) == IF f = "string" THEN StrV(text) ELSE BytesV(text)

HookErrorTypes == {"RuntimeError", "TypeError", "StopIteration"}

(* A mapping with the keys "k", "" and "a(b)c". *)
DictFor(f) ==
    DictV(<< <<Native(f, Txt(<<"k">>)), IntV(5)>>,
             <<Native(f, <<>>), TupleV(<<IntV(1), IntV(2)>>)>>,
             <<Native(f, Txt(<<"a", "(", "b", ")", "c">>)), StrV(Txt(<<"a", "b">>))>> >>)

(* Family 1: every short template over the characters that steer the scan, *)
(* in the bytes flavor also over the two bytes of a non-ASCII character.   *)
ScanChars(f) ==
    Chars({"%", "(", ")", "s", "*", "."})
    \cup (IF f = "bytes" THEN {195, 169} ELSE {233})

ScanArgs(f) ==
    { TupleV(<<>>), TupleV(<<IntV(5)>>), IntV(5), StrV(Txt(<<"a">>)), DictFor(f) }

ScanInputs(Called(_)) ==
    \E f \in Flavors : \E t \in SeqsUpTo(ScanChars(f), MaxLen), a \in ScanArgs(f) :
        Called(Input(f, Native(f, t), a))

(* Family 2: one directive `%<conversion>` applied to one value of every   *)
(* kind, alone or with a second value left over.                           *)
SmallValues ==
    { IntV(-3), IntV(0), IntV(5),
      StrV(<<>>), StrV(Txt(<<"a">>)), StrV(Txt(<<"a", "b">>)), StrV(<<233>>),
      BytesV(Txt(<<"a">>)), BytesV(Txt(<<"a", "b">>)), BytesV(<<255>>),
      FloatV(FALSE, "finite", 3), FloatV(TRUE, "finite", 0), FloatV(FALSE, "nan", 0),
      FloatV(TRUE, "nan", 0), FloatV(TRUE, "inf", 0),
      TupleV(<<IntV(1), IntV(2)>>), DictV(<< <<StrV(Txt(<<"k">>)), IntV(5)>> >>),
      NoValue }
    \cup { ObjV(e, FALSE) : e \in HookErrorTypes }

(* Integers at the edges of the two %c ranges. *)
CodePointValues ==
    { IntV(-1), IntV(65), IntV(200), IntV(255), IntV(256), IntV(55296), IntV(128512),
      IntV(MaxCodePoint), IntV(MaxCodePoint + 1) }

(* One character outside ASCII as the flavor's template holds it: a code   *)
(* point, or the two bytes of its UTF-8 form.                              *)
NonAscii(f) == IF f = "bytes" THEN <<195, 169>> ELSE <<233>>

ConversionChars == Conversions \cup Chars({"z", "%", ")"})

ConversionInputs(Called(_)) ==
    \E f \in Flavors :
        \/ \E conv \in ConversionChars,
              a \in { <<v>> : v \in SmallValues } \cup { <<>>, <<IntV(5), IntV(5)>> } :
                Called(Input(f, Native(f, <<ord["%"], conv>>), TupleV(a)))
        \/ \E v \in CodePointValues :
                Called(Input(f, Native(f, <<ord["%"], ord["c"]>>), TupleV(<<v>>)))
        \/ \E conv \in ConversionChars, a \in { <<>>, <<IntV(5)>> } :
                Called(Input(f, Native(f, NonAscii(f) \o <<ord["%"], conv>>), TupleV(a)))

(* Family 3: one directive with every combination of flags, width and      *)
(* precision; a `*` takes its integer from the arguments.  The last        *)
(* conversion is none at all: the template ends inside the directive.      *)
FlagChars == Chars({"-", "+", " ", "#", "0"})

WidthForms ==
    { <<<<>>, <<>>>>, <<Txt(<<"5">>), <<>>>>, <<Txt(<<"1", "2">>), <<>>>>,
      <<Txt(<<"*">>), <<IntV(5)>>>>, <<Txt(<<"*">>), <<IntV(-5)>>>> }

PrecisionForms ==
    { <<<<>>, <<>>>>, <<Txt(<<".">>), <<>>>>, <<Txt(<<".", "1">>), <<>>>>,
      <<Txt(<<".", "5">>), <<>>>>, <<Txt(<<".", "*">>), <<IntV(2)>>>>,
      <<Txt(<<".", "*">>), <<IntV(-1)>>>> }

FieldConversions ==
    { <<Txt(<<"d">>), IntV(-3)>>, <<Txt(<<"d">>), IntV(123)>>,
      <<Txt(<<"x">>), IntV(-3)>>, <<Txt(<<"x">>), IntV(123)>>,
      <<Txt(<<"f">>), FloatV(TRUE, "finite", 0)>>, <<Txt(<<"f">>), IntV(123)>>,
      <<Txt(<<"s">>), StrV(Txt(<<"a", "b", "c">>))>>,
      <<<<>>, IntV(123)>> }

FieldInputs(Called(_)) ==
    \E fl \in SeqsUpTo(FlagChars, MaxFlags), w \in WidthForms, p \in PrecisionForms,
       cv \in FieldConversions :
        Called(Input("string",
                     StrV(<<ord["%"]>> \o fl \o w[1] \o p[1] \o cv[1]),
                     TupleV(w[2] \o p[2] \o <<cv[2]>>)))

(* Family 4: up to MaxDirectives pieces, named and positional, against     *)
(* mappings and non-mappings.                                              *)
Pieces ==
    { Txt(<<"%", "(", "k", ")", "s">>), Txt(<<"%", "(", ")", "s">>),
      Txt(<<"%", "(", "a", "(", "b", ")", "c", ")", "s">>),
      Txt(<<"%", "(", "k", ")", "*", "d">>), Txt(<<"%", "(", ")", ".", "*", "d">>),
      Txt(<<"%", "(", "j", ")", "s">>),
      Txt(<<"%", "(", "k", ")", "z">>), Txt(<<"%", "(", "k", ")">>),
      Txt(<<"%", "(", "k">>),
      Txt(<<"%", "s">>), Txt(<<"%", "*", "d">>), Txt(<<"%", "%">>) }

RECURSIVE PieceSeqs(_)
PieceSeqs(n) ==
    LET Grown(shorter) == shorter \cup {s \o p : s \in shorter, p \in Pieces}
    IN  IF n = 0 THEN {<<>>} ELSE Grown(PieceSeqs(n - 1))

NamedArgs(f) ==
    { DictFor(f), ObjV("RuntimeError", TRUE), ObjV("StopIteration", TRUE),
      TupleV(<<IntV(5), IntV(7)>>), IntV(5), StrV(Txt(<<"a">>)) }

NamedInputs(Called(_)) ==
    \E f \in Flavors : \E t \in PieceSeqs(MaxDirectives), a \in NamedArgs(f) :
        Called(Input(f, Native(f, t), a))

(* The state in which format(inp.template, inp.args) is called. *)
Start(inp) ==
    /\ flavor = inp.flavor
    /\ template = inp.template
    /\ args = inp.args
    /\ pc = "call"
    /\ string = <<>>
    /\ args_dict = NoValue
    /\ args_tuple = <<>>
    /\ args_len = 0
    /\ arg_idx = 0
    /\ result = <<>>
    /\ idx = -1
    /\ begin = 0
    /\ in_specifier = FALSE
    /\ it = 0
    /\ c = 0
    /\ pcount = 0
    /\ keystart = 0
    /\ key = <<>>
    /\ flags = 0
    /\ positive_sign = <<>>
    /\ use_alt_formatting = FALSE
    /\ width = -1
    /\ precision = -1
    /\ outcome = Running
    /\ hook_raised = NoError
    /\ NoHandlerCall
    /\ NoIterators

Init ==
    \/ ScanInputs(Start)
    \/ ConversionInputs(Start)
    \/ FieldInputs(Start)
    \/ NamedInputs(Start)

Next ==
    \/ Call
    \/ ScanLiteral
    \/ BeginSpecifier
    \/ ScanName
    \/ LookupName
    \/ ParseFlag
    \/ ParseWidthStar
    \/ ParseWidthDigit
    \/ ParsePrecisionDot
    \/ ParsePrecisionStar
    \/ ParsePrecisionDigit
    \/ NotEnoughArguments
    \/ ConvertString
    \/ ConvertChar
    \/ ConvertDecimal
    \/ ConvertInteger
    \/ ConvertFloat
    \/ UnsupportedConversion
    \/ Finish

Spec == Init /\ [][Next]_vars

---------------------------------------------------------------------------
(* The generalized error handlers of _codecs: a call looks up the handler *)
(* registered under the name `errors`, invokes it on the exception that   *)
(* describes the bad span of the input, checks what it returned and       *)
(* resolves the position to go on from.                                   *)

MaxInputLen == 9
MaxPosition == MaxInputLen + 2

HandlerKinds == {"decode", "encode"}

(* b"bad_input" or "bad_input": an input of n units, of the type the call *)
(* takes.                                                                  *)
HandlerInput(kind, n) ==
    IF kind = "decode" THEN BytesV(Rep(ord["a"], n)) ELSE StrV(Rep(ord["a"], n))

(* What is registered under `errors`: nothing, "strict", "ignore", or an   *)
(* error_function that returns `returns` and may set err.object to 1.      *)
Unregistered == [name |-> "unknown", returns |-> NoValue, changes_input |-> FALSE]
Strict == [name |-> "strict", returns |-> NoValue, changes_input |-> FALSE]
Ignore == [name |-> "ignore", returns |-> NoValue, changes_input |-> FALSE]
error_function(returns, changes_input) ==
    [name |-> "custom", returns |-> returns, changes_input |-> changes_input]

str_to_append == StrV(Txt(<<"s">>))
bytes_to_append == BytesV(Txt(<<"s">>))

(* The results error functions return: (replacement, position) and the    *)
(* ill-formed ones.                                                        *)
HandlerReturns ==
    { TupleV(<<r, IntV(p)>>) : r \in {str_to_append, bytes_to_append},
                               p \in (0 - MaxPosition)..MaxPosition }
    \cup { str_to_append,
           TupleV(<<str_to_append>>),
           TupleV(<<IntV(1), IntV(1)>>),
           TupleV(<<str_to_append, str_to_append>>) }

(* The exception raised for the span when no handler recovers it. *)
UnicodeError(kind) ==
    IF kind = "decode" THEN Err("UnicodeDecodeError", "reason")
    ELSE Err("UnicodeEncodeError", "reason")

(* The result is a 2-tuple of a replacement and a position: the            *)
(* replacement a str for a decode call, a str or bytes for an encode call, *)
(* the position an int.                                                    *)
IsReplacementAndPosition(kind, res) ==
    /\ _tuple_check(res)
    /\ Len(res.v) = 2
    /\ \/ _str_check(res.v[1])
       \/ (kind = "encode" /\ res.v[1].k = "bytes")
    /\ res.v[2].k = "int"

(* NewPosition taking the position as it is. *)
NewPosition_NoWrap(pos, n) ==
    IF pos < 0 \/ pos > n
    THEN Raise(Err("IndexError", "position out of bounds"))
    ELSE Ok(pos)

(* The position to go on from: a negative one counts from the end of the   *)
(* input of length n; it is an index of the input or its length.           *)
NewPosition(pos, n) ==
    LET Checked(p) ==
            IF p < 0 \/ p > n
            THEN Raise(Err("IndexError", "position out of bounds"))
            ELSE Ok(p)
    IN  Checked(IF pos < 0 THEN pos + n ELSE pos)

(* The state in which the handler is called. *)
HandlerStart(kind, n, end, registered) ==
    /\ handler_call = [kind |-> kind, input |-> HandlerInput(kind, n), end |-> end,
                       errors |-> registered]
    /\ handler_pc = "lookup"
    /\ handler_result = NoValue
    /\ output = <<>>
    /\ handler_outcome = Running

HandlerRaise(e) == handler_pc' = "done" /\ handler_outcome' = Raised(e)

(* The handler is looked up by name. *)
LookupHandler ==
    /\ handler_pc = "lookup"
    /\ IF handler_call.errors.name = "unknown"
       THEN HandlerRaise(Err("LookupError", "unknown error handler name"))
       ELSE handler_pc' = "invoke" /\ UNCHANGED handler_outcome
    /\ UNCHANGED <<itervars, formatvars, handler_call, handler_result, output>>

(* The handler is invoked on the exception: "strict" raises it, "ignore"   *)
(* returns ("", end), an error_function returns what it returns.           *)
InvokeHandler ==
    /\ handler_pc = "invoke"
    /\ IF handler_call.errors.name = "strict"
       THEN /\ HandlerRaise(UnicodeError(handler_call.kind))
            /\ UNCHANGED handler_result
       ELSE /\ handler_result' =
                   IF handler_call.errors.name = "ignore"
                   THEN TupleV(<<StrV(<<>>), IntV(handler_call.end)>>)
                   ELSE handler_call.errors.returns
            /\ handler_pc' = "result"
            /\ UNCHANGED handler_outcome
    /\ UNCHANGED <<itervars, formatvars, handler_call, output>>

(* The shape of the result, and for a decode call the input the handler    *)
(* may have replaced, are checked.                                         *)
CheckResult ==
    /\ handler_pc = "result"
    /\ IF ~IsReplacementAndPosition(handler_call.kind, handler_result)
       THEN HandlerRaise(Err("TypeError", "handler must return (str, int) tuple"))
       ELSE IF handler_call.kind = "decode" /\ handler_call.errors.changes_input
       THEN HandlerRaise(Err("TypeError", "exception attribute object must be bytes"))
       ELSE handler_pc' = "position" /\ UNCHANGED handler_outcome
    /\ UNCHANGED <<itervars, formatvars, handler_call, handler_result, output>>

(* The position is resolved; a decode call appends the replacement to the  *)
(* output and returns the input with the position, an encode call returns  *)
(* the replacement with the position.                                      *)
ResolvePosition ==
    /\ handler_pc = "position"
    /\ LET Resolved(pos) ==
               IF ~pos.ok
               THEN HandlerRaise(pos.err) /\ UNCHANGED output
               ELSE /\ handler_pc' = "done"
                    /\ IF handler_call.kind = "decode"
                       THEN /\ output' = output \o handler_result.v[1].v
                            /\ handler_outcome' =
                                   Returned(TupleV(<<handler_call.input, IntV(pos.v)>>))
                       ELSE /\ UNCHANGED output
                            /\ handler_outcome' =
                                   Returned(TupleV(<<handler_result.v[1], IntV(pos.v)>>))
       IN  Resolved(NewPosition(handler_result.v[2].v, Len(handler_call.input.v)))
    /\ UNCHANGED <<itervars, formatvars, handler_call, handler_result>>

(* No call of format is under way. *)
NoFormatCall ==
    /\ flavor = "string"
    /\ template = StrV(<<>>)
    /\ args = TupleV(<<>>)
    /\ pc = "idle"
    /\ string = <<>>
    /\ args_dict = NoValue
    /\ args_tuple = <<>>
    /\ args_len = 0
    /\ arg_idx = 0
    /\ result = <<>>
    /\ idx = -1
    /\ begin = 0
    /\ in_specifier = FALSE
    /\ it = 0
    /\ c = 0
    /\ pcount = 0
    /\ keystart = 0
    /\ key = <<>>
    /\ flags = 0
    /\ positive_sign = <<>>
    /\ use_alt_formatting = FALSE
    /\ width = -1
    /\ precision = -1
    /\ outcome = Running
    /\ hook_raised = NoError

RegisteredHandlers ==
    {Unregistered, Strict, Ignore}
    \cup { error_function(r, ch) : r \in HandlerReturns, ch \in BOOLEAN }

HandlerInit ==
    /\ NoFormatCall
    /\ NoIterators
    /\ \E kind \in HandlerKinds, n \in 0..MaxInputLen :
          \E end \in 0..n, registered \in RegisteredHandlers :
              HandlerStart(kind, n, end, registered)

HandlerNext ==
    \/ LookupHandler
    \/ InvokeHandler
    \/ CheckResult
    \/ ResolvePosition

HandlerSpec == HandlerInit /\ [][HandlerNext]_vars

---------------------------------------------------------------------------
(* Properties of a call. *)

Done == pc = "done"
Failed == Done /\ outcome.status = "raised"
FailedWith(type, msg) == Failed /\ outcome.error.type = type /\ outcome.error.msg = msg

(* The template as given holds no '%'. *)
NoPercent == \A j \in DOMAIN template.v : template.v[j] # ord["%"]

(* A bytes template that is not UTF-8: as_str(string) at line 125 raises. *)
Undecodable == flavor = "bytes" /\ ~Utf8Decode(template.v).ok

(* The kinds of `args`: a text value, a tuple, a value with key lookup. *)
ArgsIsText == args.k = "str"
ArgsIsTuple == args.k = "tuple"
ArgsHasKeyLookup == args.k \in {"dict", "bytes"} \/ (args.k = "obj" /\ args.v.mapping)

(* C1, as stated: a call whose template holds no '%' returns the template  *)
(* unchanged, whatever the arguments are.                                  *)
C1_PlainTemplateAnyArgs ==
    (Done /\ NoPercent) => outcome = Returned(template)

(* C1, amended: a call whose template holds no '%' returns the template    *)
(* unchanged when args is the empty tuple or a value with key lookup that  *)
(* is neither a tuple nor text; with any other args it fails with 'not all *)
(* arguments converted'; a bytes template that is not UTF-8 fails with the *)
(* decoding error before anything is scanned.                              *)
C1_PlainTemplate ==
    (Done /\ NoPercent) =>
        IF Undecodable THEN Failed /\ outcome.error.type = "UnicodeDecodeError"
        ELSE IF args = TupleV(<<>>) \/ ArgsHasKeyLookup THEN outcome = Returned(template)
        ELSE outcome = Raised(not_all_arguments_converted(flavor))

(* A non-empty bytes template without '%' came back unchanged from a call  *)
(* with a dict.                                                            *)
C1_Witness ==
    /\ Done /\ NoPercent /\ flavor = "bytes" /\ template.v # <<>>
    /\ args.k = "dict"
    /\ outcome = Returned(template)

(* The call is format("%c", (n,)) for an integer n. *)
IsPercentC ==
    /\ template.v = <<ord["%"], ord["c"]>>
    /\ ArgsIsTuple /\ Len(args.v) = 1 /\ args.v[1].k = "int"

(* C2: in the bytes flavor `%c` of an integer outside 0..255 fails with    *)
(* OverflowError and returns nothing; in the string flavor `%c` of every   *)
(* integer in 0..0x10FFFF returns.                                         *)
C2_CharRange ==
    (Done /\ IsPercentC) =>
        IF flavor = "bytes"
        THEN args.v[1].v \notin 0..255 => FailedWith("OverflowError", "%c arg not in range(256)")
        ELSE args.v[1].v \in 0..MaxCodePoint => outcome.status = "returned"

(* The end of the scan: the iterator is exhausted after the last unit,     *)
(* outside every directive (lines 400-406 pass).                           *)
ScanComplete == pc = "stop" /\ idx + 1 = Len(string) /\ ~in_specifier

(* C3, as stated: when the scan ends without error with an argument left   *)
(* over and no named reference was met, the call fails with 'not all       *)
(* arguments converted'.                                                   *)
C3_ExcessAnyArgs ==
    [][(ScanComplete /\ arg_idx < args_len /\ args_dict = NoValue)
        => outcome' = Raised(not_all_arguments_converted(flavor))]_vars

(* C3, amended: when the scan ends without error with an argument left     *)
(* over, no named reference was met, and args is a tuple, a text value or  *)
(* a value without key lookup, the call fails with 'not all arguments      *)
(* converted'; a single value with key lookup that is neither is not       *)
(* counted as left over.                                                   *)
C3_ExcessArguments ==
    [][(/\ ScanComplete /\ arg_idx < args_len /\ args_dict = NoValue
        /\ (ArgsIsTuple \/ ArgsIsText \/ ~ArgsHasKeyLookup))
        => outcome' = Raised(not_all_arguments_converted(flavor))]_vars

(* A directive consumed one argument of two and the call failed on the     *)
(* other.                                                                  *)
C3_Witness ==
    /\ Done /\ ArgsIsTuple /\ Len(args.v) = 2 /\ arg_idx = 1 /\ args_dict = NoValue
    /\ outcome = Raised(not_all_arguments_converted(flavor))

(* The scan stands where a directive takes an argument: at a `*` width     *)
(* (line 217), a `*` precision (line 247) or the conversion (line 266).    *)
NeedsArgument ==
    \/ AtWidth /\ c = ord["*"]
    \/ pc = "precstart" /\ c = ord["*"]
    \/ AtConversion

NotEnoughArgumentsError == Err("TypeError", "not enough arguments for format string")

(* C4: a directive that needs a positional argument when the next-argument *)
(* index equals the argument count fails with 'not enough arguments for    *)
(* format string'; the index always lies between 0 and the argument count, *)
(* the count is the length of the argument tuple, and an argument is only  *)
(* taken from a position inside the tuple.                                 *)
C4_ArgumentBounds ==
    /\ [](0 <= arg_idx /\ arg_idx <= args_len)
    /\ [](pc # "call" => args_len = Len(args_tuple))
    /\ [][arg_idx' = arg_idx + 1 => arg_idx < Len(args_tuple)]_vars
    /\ [][(NeedsArgument /\ arg_idx = args_len)
            => pc' = "done" /\ outcome' = Raised(NotEnoughArgumentsError)]_vars

(* A `*` width took the only argument and none was left for the            *)
(* conversion.                                                             *)
C4_Witness ==
    /\ Done /\ outcome = Raised(NotEnoughArgumentsError)
    /\ args_dict = NoValue /\ args_len = 1 /\ arg_idx = 1 /\ width >= 0

(* An unsupported character stands in the conversion position. *)
AtUnsupported == AtConversion /\ c \notin Conversions

UnsupportedAt(o, ch, index) ==
    /\ o.status = "raised"
    /\ o.error.type = "ValueError" /\ o.error.msg = "unsupported format character"
    /\ o.error.ch = ch /\ o.error.index = index

(* C5, as stated: a character in the conversion position that is no        *)
(* conversion makes the call fail with 'unsupported format character',     *)
(* naming the character and its index in the template, however many        *)
(* arguments are left, none included.                                      *)
C5_UnsupportedAlways ==
    [][AtUnsupported
        => /\ UnsupportedAt(outcome', c, idx)
           /\ idx < Len(template.v) /\ template.v[idx + 1] = c]_vars

(* C5, amended: the same when at least one argument is left; the index is  *)
(* that of the character in the scanned text, which for a bytes template   *)
(* is its UTF-8 decoding.  With no argument left the call fails with 'not  *)
(* enough arguments for format string' instead.                            *)
C5_UnsupportedConversion ==
    [][AtUnsupported
        => IF arg_idx < args_len
           THEN /\ UnsupportedAt(outcome', c, idx)
                /\ idx < Len(string) /\ string[idx + 1] = c
           ELSE outcome' = Raised(NotEnoughArgumentsError)]_vars

(* `%z` after a two-byte character of a bytes template: the index reported *)
(* is the one in the decoded text.                                         *)
C5_Witness ==
    /\ Done /\ flavor = "bytes" /\ Len(template.v) > Len(string)
    /\ UnsupportedAt(outcome, ord["z"], Len(string) - 1)

(* The scan is inside a directive: after its `%` and before its            *)
(* conversion is done.                                                     *)
InDirective ==
    pc \in {"spec", "name", "lookup", "flags", "wdigits", "prec", "precstart", "pdigits",
            "conv"}

(* The iterator ran out (line 142 and the other it.__next__() calls); no   *)
(* hook raised the StopIteration.                                          *)
TemplateEnded == pc = "stop" /\ hook_raised.type # "StopIteration"

IncompleteFormat == Err("ValueError", "incomplete format")

C7_MappingRequired ==
    [][(/\ pc = "spec" /\ More /\ Peek = ord["("]
        /\ (ArgsIsTuple \/ ArgsIsText \/ ~ArgsHasKeyLookup))
        => /\ pc' = "done"
           /\ outcome' = Raised(Err("TypeError", "format requires a mapping"))
           /\ UNCHANGED <<args_dict, key, hook_raised>>]_vars

(* `%(` with a tuple of two as the argument. *)
C7_Witness ==
    /\ Done /\ ArgsIsTuple /\ Len(args.v) = 2
    /\ outcome = Raised(Err("TypeError", "format requires a mapping"))
    /\ args_dict = NoValue

(* C8: when a hook of an argument or of the mapping raised an exception,   *)
(* the call fails with exactly that exception.                             *)
C8_HookErrorPropagates ==
    (Done /\ hook_raised # NoError) => outcome = Raised(hook_raised)

(* The template is one directive and nothing else, so that the value       *)
(* returned is the field it rendered.                                      *)
OneDirective ==
    /\ Len(string) >= 2 /\ string[1] = ord["%"] /\ string[Len(string)] = c
    /\ \A j \in 2..Len(string) : string[j] # ord["%"]

(* The argument the directive converted, and the parts of an integer       *)
(* field.                                                                  *)
ConvertedArg == args_tuple[arg_idx]
Magnitude == IF ConvertedArg.v < 0 THEN -ConvertedArg.v ELSE ConvertedArg.v
DigitsLen ==
    IF c \in DecimalConversions THEN Len(IntStr(Magnitude))
    ELSE Len(_int_format(Magnitude, CASE c = ord["x"] -> "x" [] c = ord["X"] -> "X"
                                      [] OTHER -> "o"))
SignLen == Len(SignOf(ConvertedArg.v < 0, positive_sign))
PrefixLen == IF c \in IntegerConversions /\ use_alt_formatting THEN 2 ELSE 0

(* C9: the field of a numeric directive with width w is at least w units   *)
(* long, and that of an integer conversion is exactly                      *)
(* max(w, len(sign) + len(prefix) + max(precision, len(digits))) long.     *)
C9_FieldWidth ==
    (/\ Done /\ outcome.status = "returned" /\ OneDirective
     /\ c \in DecimalConversions \cup IntegerConversions \cup FloatConversions)
    => /\ Len(outcome.value.v) >= width
       /\ (c \notin FloatConversions /\ ConvertedArg.k = "int")
            => Len(outcome.value.v)
                 = Max(width, SignLen + PrefixLen + Max(precision, DigitsLen))

(* A named reference has been processed: the mapping is held. *)
MappingMode == args_dict # NoValue

(* The value the mapping holds under the name met last. *)
NamedValue == Lookup(args_dict, cast(flavor, key).v)

(* Where the directive being parsed begins: the first `%` from `begin`    *)
(* on.  It is a named one when a `(` follows.                              *)
DirectiveStart ==
    CHOOSE j \in begin..(Len(string) - 1) :
        /\ string[j + 1] = ord["%"]
        /\ \A i \in begin..(j - 1) : string[i + 1] # ord["%"]
NamedDirective ==
    DirectiveStart + 1 < Len(string) /\ string[DirectiveStart + 2] = ord["("]

(* C10: once args_dict is set it stays what it is until the call is over;  *)
(* from then on the only argument ever taken is the value found under the  *)
(* name met last, never one of the call's positional arguments; between    *)
(* directives no argument is left, so a directive without a name fails     *)
(* with 'not enough arguments for format string'; and the call never       *)
(* fails with 'not all arguments converted'.                               *)
C10_MappingModeAbsorbing ==
    /\ [][MappingMode => args_dict' = args_dict]_vars
    /\ [][(MappingMode /\ arg_idx' = arg_idx + 1)
            => /\ arg_idx = 0 /\ args_len = 1
               /\ NamedValue = Ok(args_tuple[1])]_vars
    /\ []((MappingMode /\ pc \in {"scan", "spec"}) => arg_idx = args_len)
    /\ [][(MappingMode /\ NeedsArgument /\ ~NamedDirective)
            => pc' = "done" /\ outcome' = Raised(NotEnoughArgumentsError)]_vars
    /\ []((Done /\ MappingMode) => outcome # Raised(not_all_arguments_converted(flavor)))

(* After `%(k)s` took the value of k, `%s` found no argument. *)
C10_Witness ==
    /\ Done /\ MappingMode /\ args.k = "dict"
    /\ result # <<>> /\ arg_idx = 1
    /\ string[Len(string)] = ord["s"] /\ string[Len(string) - 1] = ord["%"]
    /\ outcome = Raised(NotEnoughArgumentsError)


(* C11: a step at which a hook fails ends the call at that step with an    *)
(* exception; a failed call returns no value; and once the call is over    *)
(* nothing more is scanned, taken, looked up or converted.                 *)
C11_FirstErrorEndsCall ==
    /\ [][hook_raised' # hook_raised => (pc' = "done" /\ outcome'.status = "raised")]_vars
    /\ [](Failed => outcome.value = NoValue)
    /\ [][Done => UNCHANGED vars]_vars


(* Calls that take every loop of the scan around more than once and end   *)
(* in every way a call can end.                                            *)
TerminationTemplates ==
    { <<>>, Txt(<<"a", "b">>), Txt(<<"a", "%">>), Txt(<<"%", "%">>),
      Txt(<<"%", "c">>), Txt(<<"%", "d">>), Txt(<<"%", "x">>), Txt(<<"%", "f">>),
      Txt(<<"%", "s">>), Txt(<<"%", "z">>), Txt(<<"%", "s", "%", "s", "a">>),
      Txt(<<"%", "-", "0", "+", " ", "#", "5", "d">>),
      Txt(<<"%", "1", "2", ".", "1", "3", "d">>), Txt(<<"%", "*", ".", "*", "d">>),
      Txt(<<"%", ".", "d">>), Txt(<<"%", "-", "0">>), Txt(<<"%", "1", "2">>),
      Txt(<<"%", ".", "1", "2">>), Txt(<<"%", "(", "k", ")", "s">>),
      Txt(<<"%", "(", "a", "(", "b", ")", "c", ")", "s">>), Txt(<<"%", "(", "k">>),
      Txt(<<"%", "(", "k", ")">>), Txt(<<"%", "(", "k", ")", "s", "%", "s">>) }

TerminationArgs(f) ==
    { TupleV(<<>>), TupleV(<<IntV(5)>>), TupleV(<<IntV(5), IntV(5), IntV(5)>>),
      IntV(5), StrV(Txt(<<"a">>)), DictFor(f), ObjV("RuntimeError", TRUE),
      TupleV(<<ObjV("StopIteration", FALSE)>>) }

TerminationInputs(Called(_)) ==
    \E f \in Flavors : \E t \in TerminationTemplates, a \in TerminationArgs(f) :
        Called(Input(f, Native(f, t), a))

(* A call taken to its end: every step that can be taken is taken. *)
FairSpec == TerminationInputs(Start) /\ [][Next]_vars /\ WF_vars(Next)

(* C12: every call comes to an end; a step leaves idx alone or advances it *)
(* by exactly one unit together with the iterator; the steps of the loops  *)
(* over flags, width digits, precision digits and the name that stay in    *)
(* the loop advance it; and idx stays below the length of the text.        *)
C12_ScanTerminates ==
    /\ <>Done
    /\ [](pc # "call" => (idx + 1 = it /\ it <= Len(string)))
    /\ [][idx' = idx \/ (idx' = idx + 1 /\ it' = it + 1)]_vars
    /\ [][(pc \in {"name", "flags", "wdigits", "pdigits"} /\ pc' = pc) => idx' = idx + 1]_vars

(* The scan read a template of three units to its end and returned. *)
C12_Witness ==
    /\ Done /\ outcome.status = "returned"
    /\ Len(string) = 3 /\ idx = 2 /\ it = 3






(* The unit after the `%` that opened a directive is a second `%`. *)
EscapedPercent == pc = "spec" /\ More /\ Peek = ord["%"]

(* The template, all ASCII, holds one `%%` and no other `%`; the text it   *)
(* stands for.                                                             *)
EscapeAt(j) ==
    /\ string[j] = ord["%"] /\ string[j + 1] = ord["%"]
    /\ \A i \in (1..Len(string)) \ {j, j + 1} : string[i] # ord["%"]
OneEscape ==
    /\ pc # "call" /\ string = template.v
    /\ \E j \in 1..(Len(string) - 1) : EscapeAt(j)
Unescaped ==
    LET j == CHOOSE j \in 1..(Len(string) - 1) : EscapeAt(j)
    IN  SubSeq(string, 1, j) \o SubSeq(string, j + 2, Len(string))

(* C13: the step that reads the second `%` of `%%` appends one '%' to the  *)
(* output, leaves the arguments, the mapping, the name and the directive   *)
(* state as they are, does not end the call, and hands over to literal     *)
(* scanning with the literal text beginning at the unit after it; the `%`  *)
(* before it took no argument and no mapping either; a template whose only *)
(* `%` are one `%%` comes back with that pair replaced by one '%'.         *)
C13_EscapedPercent ==
    /\ [][EscapedPercent =>
            /\ result' = result \o <<ord["%"]>>
            /\ idx' = idx + 1 /\ begin' = idx' + 1
            /\ in_specifier' = FALSE /\ pc' = "scan"
            /\ UNCHANGED <<inputs, string, argvars, namevars, dirvars, outcome,
                           hook_raised>>]_vars
    /\ [][(pc = "scan" /\ pc' = "spec") =>
            UNCHANGED <<argvars, namevars, dirvars, outcome, hook_raised>>]_vars
    /\ []((Done /\ OneEscape /\ (args = TupleV(<<>>) \/ ArgsHasKeyLookup))
            => outcome = Returned(Native(flavor, Unescaped)))

(* b"a%%" with a dict came back as b"a%", no lookup made. *)
C13_Witness ==
    /\ Done /\ OneEscape /\ flavor = "bytes" /\ args.k = "dict"
    /\ Len(string) = 3 /\ EscapeAt(2)
    /\ args_dict = NoValue /\ arg_idx = 0
    /\ outcome = Returned(BytesV(<<string[1], ord["%"]>>))


(* The handler has returned a replacement and a position, and the input is *)
(* still the one the call was given.                                       *)
HandlerReturnedPair ==
    /\ handler_result # NoValue
    /\ IsReplacementAndPosition(handler_call.kind, handler_result)
    /\ ~(handler_call.kind = "decode" /\ handler_call.errors.changes_input)

(* C14: when the handler has returned (replacement, pos) for an input of   *)
(* length n, the call is over with pos, or pos + n when pos is negative,   *)
(* as the position it returns if that lies in 0..n, and with an IndexError *)
(* otherwise.                                                              *)
C14_HandlerPosition ==
    (handler_pc = "done" /\ HandlerReturnedPair) =>
        LET n == Len(handler_call.input.v)
            pos == handler_result.v[2].v
            normalised == IF pos < 0 THEN pos + n ELSE pos
        IN  IF normalised \in 0..n
            THEN /\ handler_outcome.status = "returned"
                 /\ handler_outcome.value.v[2] = IntV(normalised)
            ELSE /\ handler_outcome.status = "raised"
                 /\ handler_outcome.error.type = "IndexError"

(* A decode call on nine bytes whose handler returned -1 gave back 8. *)
C14_Witness ==
    /\ handler_pc = "done" /\ handler_call.kind = "decode"
    /\ Len(handler_call.input.v) = 9
    /\ handler_result = TupleV(<<str_to_append, IntV(-1)>>)
    /\ output = str_to_append.v
    /\ handler_outcome = Returned(TupleV(<<handler_call.input, IntV(8)>>))


(* The positional arguments of the call: the tuple, or the one value that  *)
(* is not a tuple.                                                         *)
PositionalArgs == IF ArgsIsTuple THEN args.v ELSE <<args>>
PositionalMode == pc \notin {"call", "idle"} /\ ~Undecodable /\ ~MappingMode

(* The positional argument the index points at. *)
ArgumentAtIndex == PositionalArgs[arg_idx + 1]

(* The field a %s directive of the text flavor makes of a str argument:    *)
(* its first `precision` units, padded with spaces to `width` on one side. *)
TextFieldsOf(text) ==
    LET fragment == IF PrecisionNow >= 0
                    THEN SubSeq(text, 1, Min(PrecisionNow, Len(text))) ELSE text
        padding == Rep(ord[" "], Max(0, WidthNow - Len(fragment)))
    IN  {padding \o fragment, fragment \o padding}

(* C15: in positional mode the arguments are those of the call and the     *)
(* index starts at 0; a step leaves it or adds one to it; a step that adds *)
(* one is a `*` width, a `*` precision or a conversion, in this order      *)
(* within a directive, and what it takes (the width, the precision, the    *)
(* value converted) is the argument the index pointed at.                  *)
C15_PositionalOrder ==
    /\ [][pc = "call" => arg_idx' = 0]_vars
    /\ [](PositionalMode => /\ args_tuple = PositionalArgs
                            /\ arg_idx \in 0..Len(PositionalArgs))
    /\ [][(PositionalMode /\ ~MappingMode')
            => arg_idx' = arg_idx \/ arg_idx' = arg_idx + 1]_vars
    /\ [][(PositionalMode /\ arg_idx' = arg_idx + 1) =>
            \/ /\ AtWidth /\ c = ord["*"]
               /\ ArgumentAtIndex.k = "int" =>
                    /\ width' = IF ArgumentAtIndex.v < 0 THEN 0 - ArgumentAtIndex.v
                                ELSE ArgumentAtIndex.v
                    /\ pc' \in {"prec", "stop"}
            \/ /\ pc = "precstart" /\ c = ord["*"]
               /\ ArgumentAtIndex.k = "int" =>
                    /\ precision' = Max(0, ArgumentAtIndex.v)
                    /\ pc' \in {"conv", "stop"}
            \/ /\ AtConversion
               /\ pc' \in {"scan", "stop", "done"}
               /\ (c = ord["s"] /\ flavor = "string" /\ ArgumentAtIndex.k = "str") =>
                    \E field \in TextFieldsOf(ArgumentAtIndex.v) :
                        result' = result \o field]_vars

(* "%*.*d" took 5 as the width, 2 as the precision and -3 as the value. *)
C15_Witness ==
    /\ Done /\ outcome.status = "returned" /\ ~MappingMode
    /\ args = TupleV(<<IntV(5), IntV(2), IntV(-3)>>)
    /\ arg_idx = 3 /\ width = 5 /\ precision = 2 /\ c = ord["d"]
    /\ string = Txt(<<"%", "*", ".", "*", "d">>)
    /\ outcome.value = StrV(Txt(<<" ", " ", "-", "0", "3">>))




(* The step is a conversion that calls its field renderer: the value was   *)
(* converted and the scan goes on.                                         *)
RendererCalled == AtConversion /\ c \in Conversions /\ ~NoArgumentLeft /\ pc' = "scan"

(* The width and the precision the renderer is called with (lines 273,     *)
(* 298, 305, 324-392): a float conversion passes the precision 0.          *)
RendererWidth == WidthNow
RendererPrecision == IF c \in FloatConversions THEN 0 ELSE PrecisionNow

(* The text of the directive between its `%`, or the `)` of its name, and  *)
(* the conversion under the cursor; the part of it after the flags.        *)
DirectiveBody ==
    SubSeq(string,
           IF NamedDirective THEN keystart + Len(key) + 2 ELSE DirectiveStart + 2,
           idx)
RECURSIVE AfterFlags(_)
AfterFlags(body) ==
    IF body # <<>> /\ IsFlagChar(Head(body)) THEN AfterFlags(Tail(body)) ELSE body

(* The directive gives a width, a `*` width, a precision, a `*` precision. *)
WidthGiven ==
    AfterFlags(DirectiveBody) # <<>>
    /\ (IsDigit(Head(AfterFlags(DirectiveBody))) \/ Head(AfterFlags(DirectiveBody)) = ord["*"])
WidthIsStar ==
    AfterFlags(DirectiveBody) # <<>> /\ Head(AfterFlags(DirectiveBody)) = ord["*"]
PrecisionGiven == \E j \in DOMAIN DirectiveBody : DirectiveBody[j] = ord["."]
PrecisionIsStar ==
    \E j \in DOMAIN DirectiveBody :
        j > 1 /\ DirectiveBody[j - 1] = ord["."] /\ DirectiveBody[j] = ord["*"]

(* The argument a `*` width took, seen from the conversion. *)
StarWidthArg == args_tuple[arg_idx - (IF PrecisionIsStar THEN 1 ELSE 0)]

IntegerFieldReturned ==
    /\ Done /\ outcome.status = "returned" /\ OneDirective
    /\ c \in DecimalConversions \cup IntegerConversions
    /\ ConvertedArg.k = "int"

(* The parts of the field: sign, base prefix and digit fragment. *)
FieldSign == SignOf(ConvertedArg.v < 0, positive_sign)
FieldPrefix ==
    IF c \in IntegerConversions /\ use_alt_formatting THEN <<ord["0"], c>> ELSE <<>>
FieldDigits ==
    IF c \in DecimalConversions THEN IntStr(Magnitude)
    ELSE _int_format(Magnitude, CASE c = ord["x"] -> "x" [] c = ord["X"] -> "X"
                                  [] OTHER -> "o")

(* The field with a spaces on the left, z zeros and b spaces on the right. *)
FieldShape(a, z, b) ==
    Rep(ord[" "], a) \o FieldSign \o FieldPrefix \o Rep(ord["0"], z) \o FieldDigits
    \o Rep(ord[" "], b)

(* C17: the field of an integer directive is spaces, sign, prefix, zeros,  *)
(* digits, spaces in this order; there are spaces on the left only when    *)
(* left-justify is clear, on the right only when it is set, and never on   *)
(* both sides.                                                             *)
C17_FieldShape ==
    IntegerFieldReturned =>
        \E a, z, b \in 0..Len(outcome.value.v) :
            /\ outcome.value.v = FieldShape(a, z, b)
            /\ a = 0 \/ b = 0
            /\ a > 0 => ~HasFlag(flags, _FLAG_LJUST)
            /\ b > 0 => HasFlag(flags, _FLAG_LJUST)

(* "%#12.5x" of -3: spaces, then the sign before the prefix before the     *)
(* zeros before the digit.                                                 *)
C17_Witness ==
    /\ IntegerFieldReturned
    /\ FieldSign = <<ord["-"]>> /\ FieldPrefix = <<ord["0"], ord["x"]>>
    /\ width = 12 /\ precision = 5
    /\ outcome.value.v = FieldShape(4, 4, 0)


(* The zero-pad flag is in force: set, with left-justify clear. *)
ZeroPadActive == HasFlag(flags, _FLAG_ZERO) /\ ~HasFlag(flags, _FLAG_LJUST)

(* The zeros that extend the digits to `precision` digits. *)
PrecisionZeros == Max(0, precision - Len(FieldDigits))

(* C18, as stated: without the zero-pad flag, or with left-justify set,    *)
(* the field of an integer directive has no leading zeros, whatever the    *)
(* precision is.                                                           *)
C18_ZerosOnlyWhenZeroPad ==
    (IntegerFieldReturned /\ ~ZeroPadActive) =>
        \E a, b \in 0..Len(outcome.value.v) : outcome.value.v = FieldShape(a, 0, b)

(* C18, amended: the zeros that extend the digits to `precision` digits    *)
(* are in the field whatever the flags are; without the zero-pad flag, or  *)
(* with left-justify set, they are all the leading zeros there are.        *)
C18_PrecisionZeros ==
    IntegerFieldReturned =>
        \E a, z, b \in 0..Len(outcome.value.v) :
            /\ outcome.value.v = FieldShape(a, z, b)
            /\ z >= PrecisionZeros
            /\ ~ZeroPadActive => z = PrecisionZeros

(* "%-.5d" of 123: two zeros with left-justify set and no zero-pad flag. *)
C18_Witness ==
    /\ IntegerFieldReturned /\ ~ZeroPadActive /\ HasFlag(flags, _FLAG_LJUST)
    /\ precision = 5 /\ width = -1 /\ c = ord["d"]
    /\ outcome.value.v = Txt(<<"0", "0", "1", "2", "3">>)




(* The flag character ch occurs in the directive read so far. *)
FlagOccurs(ch) == \E j \in DOMAIN DirectiveBody : DirectiveBody[j] = ord[ch]

(* C19: when the flags of a directive are over, the unit under the cursor  *)
(* is the first one that is no flag character, and the flag state is a     *)
(* function of the set of flag characters read: left-justify iff '-'       *)
(* occurs, zero-pad iff '0' occurs, alternate form iff '#' occurs, and the *)
(* positive sign is '+' if '+' occurs, else ' ' if ' ' occurs, else empty; *)
(* after the flags the sign and the alternate form stay as they are until  *)
(* the next directive.                                                     *)
C19_FlagState ==
    /\ [](AtWidth =>
            /\ \A j \in DOMAIN DirectiveBody : IsFlagChar(DirectiveBody[j])
            /\ ~IsFlagChar(c)
            /\ HasFlag(flags, _FLAG_LJUST) <=> FlagOccurs("-")
            /\ HasFlag(flags, _FLAG_ZERO) <=> FlagOccurs("0")
            /\ flags \in 0..3
            /\ use_alt_formatting <=> FlagOccurs("#")
            /\ positive_sign = IF FlagOccurs("+") THEN <<ord["+"]>>
                               ELSE IF FlagOccurs(" ") THEN <<ord[" "]>> ELSE <<>>)
    /\ [][(positive_sign' # positive_sign \/ use_alt_formatting' # use_alt_formatting)
            => \/ pc \in {"spec", "lookup"}
               \/ pc = "flags" /\ IsFlagChar(c)]_vars

(* "% +d": the space came first and the sign is '+'. *)
C19_Witness ==
    /\ Done /\ outcome.status = "returned"
    /\ string = Txt(<<"%", " ", "+", "d">>)
    /\ positive_sign = <<ord["+"]>> /\ c = ord["d"] /\ args = TupleV(<<IntV(123)>>)
    /\ outcome.value.v = Txt(<<"+", "1", "2", "3">>)




(* The argument a `*` is about to take. *)
StarArg == args_tuple[arg_idx + 1]
NegativeStarWidth ==
    /\ AtWidth /\ c = ord["*"] /\ ~NoArgumentLeft
    /\ StarArg.k = "int" /\ StarArg.v < 0

(* The template is one directive "%<flags>*<conv>" and the call was given  *)
(* a negative width w and a value.                                         *)
OneNegativeStarDirective ==
    /\ OneDirective /\ Len(string) >= 3 /\ string[Len(string) - 1] = ord["*"]
    /\ \A j \in 2..(Len(string) - 2) : IsFlagChar(string[j])
    /\ ArgsIsTuple /\ Len(args.v) = 2
    /\ args.v[1].k = "int" /\ args.v[1].v < 0

(* What "%-*<conv>" renders given (-w, v): the text of the value, then     *)
(* spaces up to the width -w.                                              *)
LeftJustified(text) == text \o Rep(ord[" "], Max(0, (0 - args.v[1].v) - Len(text)))

(* C20: a `*` width that takes w < 0 leaves the width -w and left-justify  *)
(* set, the other flags, the sign and the alternate form as they are,      *)
(* which is the state "%-*" reaches with -w; one that takes w >= 0 leaves  *)
(* the width w and the flags as they are.  The field rendered with w < 0   *)
(* is the one "%-*<conv>" renders for (-w, v): the value first, then       *)
(* spaces up to -w units, whatever other flags there are.                  *)
C20_NegativeStarWidth ==
    /\ [][(NegativeStarWidth /\ pc' # "done") =>
            /\ width' = 0 - StarArg.v
            /\ flags' = SetFlag(flags, _FLAG_LJUST)
            /\ HasFlag(flags', _FLAG_LJUST)
            /\ HasFlag(flags', _FLAG_ZERO) <=> HasFlag(flags, _FLAG_ZERO)
            /\ UNCHANGED <<positive_sign, use_alt_formatting>>]_vars
    /\ [][(AtWidth /\ c = ord["*"] /\ ~NoArgumentLeft /\ StarArg.k = "int"
           /\ StarArg.v >= 0 /\ pc' # "done") =>
            /\ width' = StarArg.v
            /\ UNCHANGED <<flags, positive_sign, use_alt_formatting>>]_vars
    /\ []((IntegerFieldReturned /\ OneNegativeStarDirective) =>
            outcome.value.v = LeftJustified(FieldSign \o FieldPrefix \o FieldDigits))
    /\ []((/\ Done /\ outcome.status = "returned" /\ OneNegativeStarDirective
           /\ c = ord["s"] /\ flavor = "string" /\ args.v[2].k = "str") =>
            outcome.value.v = LeftJustified(args.v[2].v))

(* "%0*d" with (-5, 123): left-justified in five units, no zeros. *)
C20_Witness ==
    /\ IntegerFieldReturned /\ OneNegativeStarDirective
    /\ string = Txt(<<"%", "0", "*", "d">>)
    /\ args = TupleV(<<IntV(-5), IntV(123)>>)
    /\ width = 5 /\ HasFlag(flags, _FLAG_LJUST) /\ HasFlag(flags, _FLAG_ZERO)
    /\ outcome.value.v = Txt(<<"1", "2", "3", " ", " ">>)


(* The step renders a %s, %r or %a field. *)
TextRendered == RendererCalled /\ c \in StringConversions

(* The argument the conversion under the cursor takes, and the text the    *)
(* conversion makes of it (lines 272, 275, 278).                           *)
CurrentArg == args_tuple[arg_idx + 1]
TextFragment ==
    (CASE c = ord["s"] -> as_str(flavor, CurrentArg)
       [] c = ord["r"] -> as_repr(flavor, CurrentArg)
       [] OTHER -> Ascii(CurrentArg)).v

(* The first p units of a text; the whole text when p is -1, for none. *)
Truncated(text, p) == IF p >= 0 THEN SubSeq(text, 1, Min(p, Len(text))) ELSE text

(* The field: the truncated fragment with spaces up to the width, after it *)
(* if left-justify is set and before it otherwise.                         *)
TextField ==
    LET text == Truncated(TextFragment, RendererPrecision)
        spaces == Rep(ord[" "], Max(0, RendererWidth - Len(text)))
    IN  IF HasFlag(flags, _FLAG_LJUST) THEN text \o spaces ELSE spaces \o text

(* The field once more through "%.<precision>s", as the flavor's own       *)
(* value.                                                                  *)
Reformatted(field) ==
    FormatString(flavor, ord["s"], cast(flavor, field).v, <<>>, 0, -1, RendererPrecision)

(* C21, as stated: the field of %s, %r, %a is the truncated fragment       *)
(* padded with spaces to the width on the side the left-justify flag       *)
(* names, whatever the zero-pad flag is, and formatting the field again     *)
(* with the same precision gives the field back.                           *)
C21_TextFieldIdempotent ==
    [][TextRendered =>
        /\ result' = result \o TextField
        /\ cast(flavor, TextField).ok => Reformatted(TextField) = Ok(TextField)]_vars

(* C21, amended: the field is the truncated fragment padded with spaces to *)
(* the width on the side the left-justify flag names, whatever the         *)
(* zero-pad flag is; its length is the larger of the width and the length  *)
(* of the truncated fragment; the truncated fragment comes back unchanged  *)
(* from formatting it again with the same precision, and the field does    *)
(* when no precision is given or the field is no longer than it.           *)
C21_TextField ==
    [][TextRendered =>
        /\ result' = result \o TextField
        /\ Len(TextField)
             = Max(RendererWidth, Len(Truncated(TextFragment, RendererPrecision)))
        /\ (RendererPrecision = 0) => TextField = Rep(ord[" "], Max(0, RendererWidth))
        /\ Truncated(Truncated(TextFragment, RendererPrecision), RendererPrecision)
             = Truncated(TextFragment, RendererPrecision)
        /\ (/\ cast(flavor, TextField).ok
            /\ RendererPrecision < 0 \/ Len(TextField) <= RendererPrecision)
             => Reformatted(TextField) = Ok(TextField)]_vars

(* "%05.1s" of "abc": four spaces and "a", five units where the precision  *)
(* is one.                                                                 *)
C21_Witness ==
    /\ Done /\ outcome = Returned(StrV(Txt(<<" ", " ", " ", " ", "a">>)))
    /\ string = Txt(<<"%", "0", "5", ".", "1", "s">>)
    /\ HasFlag(flags, _FLAG_ZERO) /\ width = 5 /\ precision = 1


(* The step renders a %d, %i or %u field of the integer int(arg). *)
DecimalRendered == RendererCalled /\ c \in DecimalConversions
DecimalArg == IntOf(CurrentArg).v

(* The number a text of decimal digits stands for. *)
RECURSIVE DecimalNumber(_)
DecimalNumber(text) ==
    IF text = <<>> THEN 0
    ELSE 10 * DecimalNumber(SubSeq(text, 1, Len(text) - 1))
         + (text[Len(text)] - ord["0"])

(* The text is the decimal representation of n >= 0: digits only, no       *)
(* leading zero but for 0 itself, standing for n.                          *)
IsDecimalOf(text, n) ==
    /\ text # <<>>
    /\ \A j \in DOMAIN text : IsDigit(text[j])
    /\ Len(text) > 1 => text[1] # ord["0"]
    /\ DecimalNumber(text) = n

(* C22: the field of %d, %i, %u for the integer v is the numeric field     *)
(* with the sign '-' when v < 0 and the positive sign of the flags         *)
(* otherwise, also for 0, with no prefix and with the decimal              *)
(* representation of |v| as its digits; for v < 0 nothing in it depends on *)
(* the '+' and space flags.                                                *)
C22_DecimalSign ==
    [][DecimalRendered =>
        LET v == DecimalArg
            absolute == IF v < 0 THEN 0 - v ELSE v
            digits == IntStr(absolute)
            Field(sign) == _format_number(result, flags, RendererWidth,
                                          RendererPrecision, sign, <<>>, digits)
        IN  /\ IsDecimalOf(digits, absolute)
            /\ v >= 0 => result' = Field(positive_sign)
            /\ v < 0 => result' = Field(<<ord["-"]>>)]_vars

(* `% d` of 0 gives " 0" and `%+d` of -3 gives "-3". *)
C22_Witness ==
    /\ Done /\ outcome.status = "returned"
    /\ \/ /\ string = Txt(<<"%", " ", "d">>) /\ args = TupleV(<<IntV(0)>>)
          /\ outcome.value.v = Txt(<<" ", "0">>)
       \/ /\ string = Txt(<<"%", "+", "d">>) /\ args = TupleV(<<IntV(-3)>>)
          /\ outcome.value.v = Txt(<<"-", "3">>)


(* The step renders a %e, %E, %f, %F, %g or %G field of float(arg). *)
FloatRendered == RendererCalled /\ c \in FloatConversions
FloatArg == _float(CurrentArg).v

(* The first unit of a text that is not a space; 0 when there is none. *)
RECURSIVE FirstNonSpace(_)
FirstNonSpace(text) ==
    IF text = <<>> THEN 0
    ELSE IF Head(text) = ord[" "] THEN FirstNonSpace(Tail(text))
    ELSE Head(text)

(* C23: the field of a float conversion has the sign '-' exactly when the  *)
(* sign bit of the value is set and the value is not NaN, negative zero    *)
(* included; every other value, a NaN with either sign bit included, has   *)
(* the positive sign of the flags and no '-'.                              *)
C23_FloatSign ==
    [][FloatRendered =>
        LET value == FloatArg
            minus == value.v.signbit /\ value.v.cls # "nan"
            fragment == _float_format(value, c,
                                      IF PrecisionNow < 0 THEN 6 ELSE PrecisionNow,
                                      use_alt_formatting)
            Field(sign) == _format_number(result, flags, RendererWidth, 0, sign,
                                          <<>>, fragment)
            field == SubSeq(result', Len(result) + 1, Len(result'))
        IN  /\ fragment # <<>> /\ fragment[1] \notin Chars({"-", "+", " "})
            /\ result' = Field(IF minus THEN <<ord["-"]>> ELSE positive_sign)
            /\ minus <=> FirstNonSpace(field) = ord["-"]]_vars

(* `%f` of -0.0 gives "-0.000000"; `%f` of a NaN with the sign bit set     *)
(* gives "nan".                                                            *)
C23_Witness ==
    /\ Done /\ outcome.status = "returned"
    /\ string = Txt(<<"%", "f">>)
    /\ \/ /\ args = TupleV(<<FloatV(TRUE, "finite", 0)>>)
          /\ outcome.value.v = Txt(<<"-", "0", ".", "0", "0", "0", "0", "0", "0">>)
       \/ /\ args = TupleV(<<FloatV(TRUE, "nan", 0)>>)
          /\ outcome.value.v = Txt(<<"n", "a", "n">>)


(* A finished call of the binary flavor for the template `%s` and one      *)
(* operand that is an integer or a text.                                   *)
BinaryTextOfOther ==
    /\ Done /\ flavor = "bytes" /\ string = Txt(<<"%", "s">>)
    /\ args.k = "tuple" /\ Len(args.v) = 1 /\ args.v[1].k \in {"int", "str"}

(* C24: in the binary flavor `%s` of an integer or of a text fails with    *)
(* the TypeError that names the bytes-like / __bytes__ protocol and        *)
(* nothing is returned.                                                    *)
C24_BinaryTextOperand ==
    BinaryTextOfOther =>
        FailedWith("TypeError",
                   "%b requires a bytes-like object, or an object that implements __bytes__, not '"
                   \o TypeName(args.v[1]) \o "'")


(* A call of the binary flavor for the template `%c` and one argument that *)
(* has returned.                                                           *)
BinaryCharReturned ==
    /\ Done /\ outcome.status = "returned"
    /\ flavor = "bytes" /\ template.v = <<ord["%"], ord["c"]>>
    /\ args.k = "tuple" /\ Len(args.v) = 1

(* C25: a binary `%c` that succeeds gives exactly one byte: the byte n for *)
(* an integer n in 0..255 and the byte itself for a one-byte value.        *)
C25_BinaryCharOneByte ==
    BinaryCharReturned =>
        LET arg == args.v[1]
        IN  /\ Len(outcome.value.v) = 1
            /\ arg.k = "int" /\ arg.v \in 0..255 => outcome.value = BytesV(<<arg.v>>)
            /\ arg.k = "bytes" /\ Len(arg.v) = 1 => outcome.value = arg


(* The step renders a numeric field with both left-justify and zero-pad    *)
(* set; left-justify comes from `-` or from a negative `*` width.          *)
NumericConversions == DecimalConversions \cup IntegerConversions \cup FloatConversions
BothJustifyAndZero ==
    /\ RendererCalled /\ c \in NumericConversions
    /\ HasFlag(flags, _FLAG_LJUST) /\ HasFlag(flags, _FLAG_ZERO)

(* Sign, prefix and digits of the number the step renders. *)
NumberIsNegative ==
    CASE c \in DecimalConversions -> IntOf(CurrentArg).v < 0
      [] c \in IntegerConversions -> _index(CurrentArg).v < 0
      [] OTHER -> _float(CurrentArg).v.v.signbit /\ _float(CurrentArg).v.v.cls # "nan"
NumberSign == IF NumberIsNegative THEN <<ord["-"]>> ELSE positive_sign
NumberPrefix ==
    IF c \in IntegerConversions /\ use_alt_formatting THEN <<ord["0"], c>> ELSE <<>>
NumberDigits ==
    LET Absolute(v) == IF v < 0 THEN 0 - v ELSE v
    IN  CASE c \in DecimalConversions -> IntStr(Absolute(IntOf(CurrentArg).v))
          [] c \in IntegerConversions ->
                _int_format(Absolute(_index(CurrentArg).v),
                            CASE c = ord["x"] -> "x" [] c = ord["X"] -> "X"
                              [] OTHER -> "o")
          [] OTHER -> _float_format(_float(CurrentArg).v, c,
                                    IF PrecisionNow < 0 THEN 6 ELSE PrecisionNow,
                                    use_alt_formatting)

(* C26: with left-justify and zero-pad both set the numeric field is the   *)
(* sign, the prefix, the zeros an integer precision asks for, the digits,  *)
(* and then spaces up to the width: nothing before the sign and no zeros   *)
(* added to reach the width.                                               *)
C26_LeftJustifyWins ==
    [][BothJustifyAndZero =>
        LET zeros == Max(0, RendererPrecision - Len(NumberDigits))
            number == NumberSign \o NumberPrefix \o Rep(ord["0"], zeros)
                      \o NumberDigits
        IN  result' = result \o number
                      \o Rep(ord[" "], Max(0, RendererWidth - Len(number)))]_vars

(* "%-05d" and "%0*d" with (-5, 123) give "123  "; "%-07.5d" gives         *)
(* "00123  ".                                                              *)
C26_Witness ==
    /\ Done /\ outcome.status = "returned"
    /\ \/ /\ string = Txt(<<"%", "-", "0", "5", "d">>)
          /\ args = TupleV(<<IntV(123)>>)
          /\ outcome.value.v = Txt(<<"1", "2", "3", " ", " ">>)
       \/ /\ string = Txt(<<"%", "0", "*", "d">>)
          /\ args = TupleV(<<IntV(-5), IntV(123)>>)
          /\ outcome.value.v = Txt(<<"1", "2", "3", " ", " ">>)


----------------------------------------------------------------------------
(* itertools.groupby and _groupby_iterator (itertools.py, lines 173-222).   *)
(* The items are integers; the key function is None, for the item itself,   *)
(* or `lambda n: n % 2`.                                                     *)

MaxItems == 3
MaxNextCalls == 4

KeyFunctions == {NoValue, StrV(Txt(<<"n", "%", "2">>))}

(* Lines 217-219: newkey *)
KeyOf(keyfunc, newvalue) ==
    IF keyfunc = NoValue THEN newvalue ELSE IntV(newvalue.v % 2)

(* groupby._groupby_step (lines 216-220) on the fields <<_it, _currkey,     *)
(* _currvalue>>: the new fields, or StopIteration from next(self._it).      *)
_groupby_step(fields) ==
    IF fields[1] >= Len(iterable) THEN Raise(Err("StopIteration", ""))
    ELSE LET newvalue == IntV(iterable[fields[1] + 1])
         IN  Ok(<<fields[1] + 1, KeyOf(_keyfunc, newvalue), newvalue>>)

(* The while loop of groupby.__next__ (lines 209-210): the fields when it   *)
(* is left, and whether _groupby_step raised StopIteration.                 *)
RECURSIVE StepWhileSameKey(_)
StepWhileSameKey(fields) ==
    LET Stepped(r) ==
            IF r.ok THEN StepWhileSameKey(r.v) ELSE [raised |-> TRUE, fields |-> fields]
    IN  IF fields[2] # _lastkey THEN [raised |-> FALSE, fields |-> fields]
        ELSE Stepped(_groupby_step(fields))

(* groupby.__new__ (lines 198-205) *)
GroupbyNew(items, keyfunc) ==
    /\ iterable = items
    /\ _keyfunc = keyfunc
    /\ _it = 0
    /\ _lastkey = _Unbound
    /\ _currkey = _Unbound
    /\ _currvalue = _Unbound
    /\ groupers = <<>>
    /\ pairs = <<>>
    /\ stops = 0
    /\ yielded = <<>>
    /\ exhausted = <<>>

(* groupby.__next__ (lines 208-214) *)
GroupbyNext ==
    /\ Len(pairs) + stops < MaxNextCalls
    /\ LET Left(loop) ==
               /\ _it' = loop.fields[1]
               /\ _currkey' = loop.fields[2]
               /\ _currvalue' = loop.fields[3]
               /\ IF loop.raised
                  THEN /\ stops' = stops + 1
                       /\ UNCHANGED <<_lastkey, groupers, pairs, yielded, exhausted>>
                  ELSE /\ _lastkey' = loop.fields[2]
                       /\ groupers' = Append(groupers, loop.fields[2])
                       /\ pairs' = Append(pairs, [key |-> loop.fields[2],
                                                  grouper |-> Len(groupers) + 1])
                       /\ yielded' = Append(yielded, <<>>)
                       /\ exhausted' = Append(exhausted, FALSE)
                       /\ UNCHANGED stops
       IN  Left(StepWhileSameKey(<<_it, _currkey, _currvalue>>))
    /\ UNCHANGED <<iterable, _keyfunc, formatvars, handlervars, teevars>>

(* _groupby_iterator.__next__ (lines 182-194) of the grouper g *)
GrouperNext(g) ==
    /\ Len(yielded[g]) + (IF exhausted[g] THEN 1 ELSE 0) <= MaxItems
    /\ IF groupers[g] # _currkey
       THEN /\ exhausted' = [exhausted EXCEPT ![g] = TRUE]
            /\ UNCHANGED <<_it, _currkey, _currvalue, yielded>>
       ELSE LET Stepped(r) ==
                    IF r.ok
                    THEN /\ _it' = r.v[1]
                         /\ _currkey' = r.v[2]
                         /\ _currvalue' = r.v[3]
                    ELSE /\ _currkey' = _Unbound
                         /\ UNCHANGED <<_it, _currvalue>>
            IN  /\ yielded' = [yielded EXCEPT ![g] = Append(@, _currvalue)]
                /\ Stepped(_groupby_step(<<_it, _currkey, _currvalue>>))
                /\ UNCHANGED exhausted
    /\ UNCHANGED <<iterable, _keyfunc, _lastkey, groupers, pairs, stops, formatvars,
                   handlervars, teevars>>

GroupbyInit ==
    /\ NoFormatCall
    /\ NoHandlerCall
    /\ NoTee
    /\ \E items \in SeqsUpTo(1..MaxItems, MaxItems), keyfunc \in KeyFunctions :
          GroupbyNew(items, keyfunc)

GroupbyAct ==
    \/ GroupbyNext
    \/ \E g \in DOMAIN groupers : GrouperNext(g)

GroupbySpec == GroupbyInit /\ [][GroupbyAct]_vars

(* The maximal runs of consecutive items with equal keys. *)
RECURSIVE RunsOf(_)
RunsOf(items) ==
    LET Joined(runs) ==
            IF runs # <<>>
               /\ KeyOf(_keyfunc, IntV(runs[Len(runs)][1]))
                  = KeyOf(_keyfunc, IntV(items[Len(items)]))
            THEN [runs EXCEPT ![Len(runs)] = Append(@, items[Len(items)])]
            ELSE Append(runs, <<items[Len(items)]>>)
    IN  IF items = <<>> THEN <<>> ELSE Joined(RunsOf(SubSeq(items, 1, Len(items) - 1)))

IsPrefix(s, t) == Len(s) <= Len(t) /\ s = SubSeq(t, 1, Len(s))

(* C27: groupby yields one (key, group) pair per maximal run, in order,    *)
(* and raises StopIteration only after the last of them; every group       *)
(* yields items of its own run only, in order, and all of them when it     *)
(* stops while it is the group handed out last.                            *)
C27_GroupbyRuns ==
    LET runs == RunsOf(iterable)
    IN  /\ Len(pairs) <= Len(runs)
        /\ \A j \in DOMAIN pairs :
              j <= Len(runs) => pairs[j].key = KeyOf(_keyfunc, IntV(runs[j][1]))
        /\ stops > 0 => Len(pairs) = Len(runs)
        /\ \A g \in DOMAIN yielded :
              g <= Len(runs) =>
                  /\ IsPrefix(yielded[g], [j \in DOMAIN runs[g] |-> IntV(runs[g][j])])
                  /\ exhausted[g] /\ g = Len(pairs) => Len(yielded[g]) = Len(runs[g])


----------------------------------------------------------------------------
(* itertools.tee, _tee_dataobject and _tee (itertools.py, lines 347-422),   *)
(* for an iterable whose iterator has no __copy__.  The items are 1, 2,     *)
(* ... in this order, so that an item skipped or repeated shows.            *)

_MAX_VALUES == 55
MaxTeeItems == 57
MaxTees == 2

TeeIterables == { [j \in 1..n |-> j] : n \in {_MAX_VALUES, MaxTeeItems} }

(* _tee_dataobject.__init__ (lines 371-375); _next_link is 0 for _Unbound  *)
(* and the place of the link in `links` otherwise.                         *)
_tee_dataobject == [_num_read |-> 0, _next_link |-> 0, _values |-> <<>>]

(* Variant of next_link that makes a new link at every call, whether the   *)
(* link has a successor already or not.                                    *)
next_link_AlwaysNew(all, data) ==
    [links |-> Append([all EXCEPT ![data]._next_link = Len(all) + 1], _tee_dataobject),
     data |-> Len(all) + 1]

(* _tee_dataobject.next_link (lines 389-392) of the link at `data`: the    *)
(* links afterwards and the place of the next link.                        *)
next_link(all, data) ==
    IF all[data]._next_link = 0
    THEN [links |-> Append([all EXCEPT ![data]._next_link = Len(all) + 1],
                           _tee_dataobject),
          data |-> Len(all) + 1]
    ELSE [links |-> all, data |-> all[data]._next_link]

(* _tee_dataobject.get_item (lines 377-387) of the link at `data`: the     *)
(* links and the source iterator afterwards with the value returned, or    *)
(* the exception raised.                                                   *)
get_item(all, source, data, i) ==
    LET link == all[data]
    IN  IF ~(i < _MAX_VALUES) THEN Raise(Err("AssertionError", ""))
        ELSE IF i < link._num_read
        THEN Ok([links |-> all, it |-> source, value |-> link._values[i + 1]])
        ELSE IF i # link._num_read THEN Raise(Err("AssertionError", ""))
        ELSE IF source >= Len(tee_iterable) THEN Raise(Err("StopIteration", ""))
        ELSE Ok([links |-> [all EXCEPT ![data] =
                                [_num_read |-> link._num_read + 1,
                                 _next_link |-> link._next_link,
                                 _values |-> Append(link._values,
                                                    tee_iterable[source + 1])]],
                 it |-> source + 1,
                 value |-> tee_iterable[source + 1]])

(* tee(iterable, n) for n > 0 (lines 347-357): _tee.from_iterable (lines   *)
(* 415-422) makes the first _tee and __copy__ the others.                  *)
TeeCalled(items, n) ==
    /\ tee_iterable = items
    /\ tee_it = 0
    /\ links = <<_tee_dataobject>>
    /\ tees = [t \in 1..n |-> [_data |-> 1, _index |-> 0]]
    /\ taken = [t \in 1..n |-> 0]
    /\ tee_outcome = [tee |-> 0, outcome |-> Running]

(* _tee.__next__ (lines 406-413) of the _tee t *)
TeeNext(t) ==
    /\ LET moved == tees[t]._index >= _MAX_VALUES
           Got(linked, index) ==
               LET item == get_item(linked.links, tee_it, linked.data, index)
               IN  IF item.ok
                   THEN /\ links' = item.v.links
                        /\ tee_it' = item.v.it
                        /\ tees' = [tees EXCEPT ![t] = [_data |-> linked.data,
                                                        _index |-> index + 1]]
                        /\ taken' = [taken EXCEPT ![t] = @ + 1]
                        /\ tee_outcome' = [tee |-> t,
                                           outcome |-> Returned(IntV(item.v.value))]
                   ELSE /\ links' = linked.links
                        /\ tees' = [tees EXCEPT ![t] = [_data |-> linked.data,
                                                        _index |-> index]]
                        /\ tee_outcome' = [tee |-> t, outcome |-> Raised(item.err)]
                        /\ UNCHANGED <<tee_it, taken>>
       IN  IF moved THEN Got(next_link(links, tees[t]._data), 0)
           ELSE Got([links |-> links, data |-> tees[t]._data], tees[t]._index)
    /\ UNCHANGED <<tee_iterable, formatvars, handlervars, groupbyvars>>

(* _tee.__copy__ (lines 396-397) of the _tee t *)
TeeCopy(t) ==
    /\ Len(tees) < MaxTees
    /\ tees' = Append(tees, tees[t])
    /\ taken' = Append(taken, taken[t])
    /\ UNCHANGED <<tee_iterable, tee_it, links, tee_outcome, formatvars, handlervars,
                   groupbyvars>>

TeeInit ==
    /\ NoFormatCall
    /\ NoHandlerCall
    /\ NoGroupby
    /\ \E items \in TeeIterables, n \in 1..MaxTees : TeeCalled(items, n)

TeeAct ==
    \/ \E t \in DOMAIN tees : TeeNext(t)
    \/ \E t \in DOMAIN tees : TeeCopy(t)

TeeSpec == TeeInit /\ [][TeeAct]_vars


(* The links in the order of the list, from the first one on. *)
RECURSIVE CachedFrom(_)
CachedFrom(data) ==
    IF data = 0 THEN <<>>
    ELSE links[data]._values \o CachedFrom(links[data]._next_link)

(* The largest number of items any _tee has yielded or inherited. *)
FurthestTaken ==
    IF taken = <<>> THEN 0
    ELSE CHOOSE n \in {taken[t] : t \in DOMAIN taken} : \A t \in DOMAIN taken : taken[t] <= n

(* C28: under every interleaving of __next__ and __copy__ no assertion of  *)
(* get_item fails; a _tee that has yielded or inherited k items yields     *)
(* item k + 1 of the source next and raises StopIteration only after the   *)
(* last item; the source has been advanced once for every item some _tee   *)
(* has reached, and the links hold those items once each, in order.        *)
C28_TeeOrder ==
    /\ tee_outcome.outcome.error.type # "AssertionError"
    /\ tee_outcome.outcome.status = "returned" =>
           tee_outcome.outcome.value = IntV(tee_iterable[taken[tee_outcome.tee]])
    /\ tee_outcome.outcome.status = "raised" =>
           /\ tee_outcome.outcome.error.type = "StopIteration"
           /\ taken[tee_outcome.tee] = Len(tee_iterable)
    /\ tees # <<>> =>
           /\ tee_it = FurthestTaken
           /\ CachedFrom(1) = SubSeq(tee_iterable, 1, tee_it)
           /\ \A d \in DOMAIN links :
                 /\ links[d]._num_read = Len(links[d]._values)
                 /\ links[d]._num_read <= _MAX_VALUES
           /\ \A t \in DOMAIN tees : tees[t]._index <= links[tees[t]._data]._num_read

(* One _tee has gone on into the second link and has yielded its first     *)
(* item, item _MAX_VALUES + 1 of the source, while another is still in the *)
(* first link.                                                             *)
C28_Witness ==
    /\ Len(links) = 2
    /\ tee_outcome.outcome = Returned(IntV(_MAX_VALUES + 1))
    /\ \E t, u \in DOMAIN tees :
          /\ tees[t] = [_data |-> 2, _index |-> 1]
          /\ tees[u]._data = 1 /\ tees[u]._index < _MAX_VALUES


(* The place of the `)` that closes the parenthesis open at depth `depth`  *)
(* when the text is read from place j on; 0 when there is none.            *)
RECURSIVE MatchingParen(_, _, _)
MatchingParen(text, j, depth) ==
    IF j > Len(text) THEN 0
    ELSE IF text[j] = ord[")"]
    THEN IF depth = 1 THEN j ELSE MatchingParen(text, j + 1, depth - 1)
    ELSE IF text[j] = ord["("] THEN MatchingParen(text, j + 1, depth + 1)
    ELSE MatchingParen(text, j + 1, depth)

(* The name has been read and its `)` is under the cursor (line 182). *)
NameRead == pc = "lookup"

(* The directive under the cursor is a named one that takes a `*` width or *)
(* a `*` precision.                                                        *)
NamedStarDirective == NamedDirective /\ (WidthIsStar \/ PrecisionIsStar)

(* C29: the key of a named directive is the text between its `(` and the   *)
(* `)` that balances it; the value found becomes the one argument of the   *)
(* directive as it is, a tuple included; so a `*` of a named directive     *)
(* either fails with '* wants int' or uses the value up, and the           *)
(* conversion then fails with 'not enough arguments for format string'.    *)
C29_NamedDirective ==
    /\ [](NameRead =>
            /\ keystart >= 2 /\ string[keystart] = ord["("]
            /\ string[keystart - 1] = ord["%"]
            /\ MatchingParen(string, keystart + 1, 1) = idx + 1
            /\ key = SubSeq(string, keystart + 1, idx))
    /\ [][(NameRead /\ More /\ args_dict.k = "dict" /\ cast(flavor, key).ok) =>
            \A j \in DOMAIN args_dict.v :
                args_dict.v[j][1] = cast(flavor, key).v =>
                    /\ args_tuple' = <<args_dict.v[j][2]>>
                    /\ args_len' = 1 /\ arg_idx' = 0
                    /\ pc' = "flags"]_vars
    /\ [][(MappingMode /\ NeedsArgument /\ ~AtConversion /\ NamedDirective) =>
            \/ pc' = "done" /\ outcome'.error \in {NotEnoughArgumentsError,
                                                   Err("TypeError", "* wants int")}
            \/ /\ arg_idx = 0 /\ arg_idx' = 1 /\ args_len' = 1
               /\ args_tuple[1].k = "int"]_vars
    /\ [][(MappingMode /\ AtConversion /\ NamedStarDirective) =>
            pc' = "done" /\ outcome' = Raised(NotEnoughArgumentsError)]_vars

(* "%(a(b)c)s" has looked up 'a(b)c' and returned its value; "%().*d" has  *)
(* found the tuple (1, 2) under '' and failed with '* wants int';          *)
(* "%(k)*d" has found 5 and failed for want of an argument.                *)
C29_Witness ==
    /\ Done /\ args_dict # NoValue /\ args_dict.k = "dict"
    /\ \/ /\ string = Txt(<<"%", "(", "a", "(", "b", ")", "c", ")", "s">>)
          /\ key = Txt(<<"a", "(", "b", ")", "c">>)
          /\ outcome.status = "returned" /\ outcome.value.v = Txt(<<"a", "b">>)
       \/ /\ string = Txt(<<"%", "(", ")", ".", "*", "d">>)
          /\ args_tuple = <<TupleV(<<IntV(1), IntV(2)>>)>>
          /\ outcome = Raised(Err("TypeError", "* wants int"))
       \/ /\ string = Txt(<<"%", "(", "k", ")", "*", "d">>)
          /\ args_tuple = <<IntV(5)>>
          /\ outcome = Raised(NotEnoughArgumentsError)


(* C30: whenever the scan loop is left through the StopIteration handler,  *)
(* idx + 1 is the length of the template, and no call ends with the        *)
(* AssertionError of the handler.                                          *)
C30_HandlerAssertion ==
    /\ pc = "stop" => idx + 1 = Len(string)
    /\ Failed => outcome.error.type # "AssertionError"

=============================================================================
